---- MODULE Spec2Model ----
(***************************************************************************)
(* Coordination backend of RelayDevFest: the lock engine (lib/locks), the  *)
(* post_status route and the remote HEAD cache (lib/github), as a state    *)
(* machine over one (repo, branch) lock hash.                              *)
(*                                                                         *)
(* A request handler is a sequential unit that suspends at every await.    *)
(* acquireLocks reads Date.now() in the handler and only then sends the    *)
(* Lua script to the store, so a call is two steps: the handler's step     *)
(* (timestamp taken, request put in flight) and the store's step (the      *)
(* script, which the store runs without interleaving).                     *)
(***************************************************************************)
EXTENDS Integers, Sequences, FiniteSets, TLC

VARIABLES
    now,        \* the wall clock, ms (Date.now())
    locks,      \* the hash locks:{repo}:{branch}: file path -> LockEntry
    inflight,   \* scripts sent to the store and not yet run
    last,       \* the step just taken: what was asked, what was returned and,
                \* for a script, the hash it found
    remoteHead, \* the branch HEAD the remote repository reports
    headCache,  \* the key github:head:{owner}:{repo}:{branch}
    nops,       \* acquisitions started so far
    otherLocks, \* the lock hash of a second (repo, branch)
    graphKv,    \* the graph service's keys of one (repo, branch): graph,
                \* graph:meta, graph:file_shas, graph:file_contents,
                \* graph:head_checked_at, graph:rate_limited_until
    flights,    \* GraphService.inFlight of one process, with the operations
                \* it has running and the callers awaiting them
    refLog,     \* the remote's history: the pairs <<sha, t>> such that the
                \* branch pointed at sha at instant t
    sweeps      \* cleanupExpiredLocks calls under way: the hash each one
                \* read and the fields it has still to visit

\* the state of the graph service, of the second lock hash, of the remote's
\* history and of the sweeps
moreVars == <<otherLocks, graphKv, flights, refLog, sweeps>>

vars == <<now, locks, inflight, last, remoteHead, headCache, nops, moreVars>>

----------------------------------------------------------------------------
(* Program constants *)

LOCK_TTL_MS == 300000

DEFAULT_REPO_HEAD_CACHE_MS == 20000

----------------------------------------------------------------------------
(* Bounds of the model *)

\* at most this many acquisitions are started
MaxAcquires == 2

Files == {"x", "y", "z"}

\* file_paths as the callers pass them: non-empty, no duplicates
FileSeqs ==
    { <<"x", "y">>, <<"y", "x">>, <<"y", "z">> }

Users == {"alice", "bob"}

Heads == {"h1", "h2"}

Range(s) == { s[i] : i \in 1..Len(s) }

----------------------------------------------------------------------------
(* The clock moves forward through these instants: a lock taken at 0      *)
(* expires at LOCK_TTL_MS and one taken at 1 at LOCK_TTL_MS + 1, so each   *)
(* expiry is seen from before, at the very instant, and (for the first)    *)
(* after it.                                                               *)

Instants == {0, 1, LOCK_TTL_MS, LOCK_TTL_MS + 1}

----------------------------------------------------------------------------
(* lib/locks *)

\* what a caller sends along with its identity and files; the two payloads
\* differ in every field
Payloads ==
    { [ status |-> "WRITING", message |-> "edit", agentHead |-> "h1",
        userName |-> "Dev One" ],
      [ status |-> "READING", message |-> "review", agentHead |-> "h2",
        userName |-> "Dev Two" ] }

LockRequests ==
    { [userId |-> u, filePaths |-> fs] @@ p :
        u \in Users, fs \in FileSeqs, p \in Payloads }

\* the table the script's commit phase builds for one file
LockEntry(req, filePath) ==
    [ file_path |-> filePath,
      user_id |-> req.userId,
      user_name |-> req.userName,
      status |-> req.status,
      agent_head |-> req.agentHead,
      message |-> req.message,
      timestamp |-> req.timestamp,
      expiry |-> req.timestamp + LOCK_TTL_MS ]

\* BlocksAcquire with the expiry test against the new lock's own expiry
\* instead of the request's timestamp
BlocksAcquireAgainstNewExpiry(lock, req) ==
    /\ lock.expiry > req.timestamp + LOCK_TTL_MS
    /\ lock.user_id # req.userId

\* BlocksAcquire that lets a READING request pass another user's READING
\* lock
BlocksAcquireSharedReading(lock, req) ==
    /\ lock.expiry > req.timestamp
    /\ lock.user_id # req.userId
    /\ ~(lock.status = "READING" /\ req.status = "READING")

\* BlocksAcquire for which an entry blocks until it is removed
BlocksAcquireUntilRemoved(lock, req) == lock.user_id # req.userId

\* the test of the check phase on one existing entry
BlocksAcquire(lock, req) ==
    /\ lock.expiry > req.timestamp
    /\ lock.user_id # req.userId

\* CheckPhase that reports the last blocked file of the request
CheckPhaseLastBlocked(h, req, i) ==
    LET blocked == { j \in i..Len(req.filePaths) :
                       /\ req.filePaths[j] \in DOMAIN h
                       /\ BlocksAcquire(h[req.filePaths[j]], req) }
    IN IF blocked = {} THEN 0
       ELSE CHOOSE j \in blocked : \A k \in blocked : k <= j

\* CheckPhase that looks at the first file of the request only
CheckPhaseFirstOnly(h, req, i) ==
    IF i > Len(req.filePaths) THEN 0
    ELSE LET f == req.filePaths[i] IN
         IF f \in DOMAIN h /\ BlocksAcquire(h[f], req) THEN i ELSE 0

\* the check phase: the index of the first file of the request, from i on,
\* whose entry blocks it; 0 when the loop runs to its end
RECURSIVE CheckPhase(_, _, _)
CheckPhase(h, req, i) ==
    IF i > Len(req.filePaths) THEN 0
    ELSE LET f == req.filePaths[i] IN
         IF f \in DOMAIN h /\ BlocksAcquire(h[f], req) THEN i
         ELSE CheckPhase(h, req, i + 1)

\* CommitPhase that writes only the files that have no entry yet
CommitPhaseKeepExisting(h, req, i) ==
    [ g \in (DOMAIN h) \cup { req.filePaths[j] : j \in i..Len(req.filePaths) } |->
        IF g \in DOMAIN h THEN h[g] ELSE LockEntry(req, g) ]

\* the commit phase: HSET of a fresh entry for the files from i on
RECURSIVE CommitPhase(_, _, _)
CommitPhase(h, req, i) ==
    IF i > Len(req.filePaths) THEN h
    ELSE LET f == req.filePaths[i]
             h2 == [ g \in (DOMAIN h) \cup {f} |->
                       IF g = f THEN LockEntry(req, f) ELSE h[g] ]
         IN CommitPhase(h2, req, i + 1)

\* AcquireScript with one loop, checking and writing file by file
RECURSIVE PerFileLoop(_, _, _)
PerFileLoop(h, req, i) ==
    IF i > Len(req.filePaths)
    THEN [ hash |-> h,
           result |-> [ success |-> TRUE,
                        locks |-> [ j \in 1..Len(req.filePaths) |->
                                      LockEntry(req, req.filePaths[j]) ] ] ]
    ELSE LET f == req.filePaths[i] IN
         IF f \in DOMAIN h /\ BlocksAcquire(h[f], req)
         THEN [ hash |-> h,
                result |-> [ success |-> FALSE,
                             reason |-> "FILE_CONFLICT",
                             conflictingFile |-> f,
                             conflictingUser |-> h[f].user_id ] ]
         ELSE PerFileLoop([ g \in (DOMAIN h) \cup {f} |->
                              IF g = f THEN LockEntry(req, f) ELSE h[g] ],
                          req, i + 1)

AcquireScriptPerFile(h, req) == PerFileLoop(h, req, 1)

\* the Lua script of acquireLocks on the hash h: the hash it leaves and the
\* value it returns
AcquireScript(h, req) ==
    LET c == CheckPhase(h, req, 1) IN
    IF c # 0
    THEN [ hash |-> h,
           result |-> [ success |-> FALSE,
                        reason |-> "FILE_CONFLICT",
                        conflictingFile |-> req.filePaths[c],
                        conflictingUser |-> h[req.filePaths[c]].user_id ] ]
    ELSE [ hash |-> CommitPhase(h, req, 1),
           result |-> [ success |-> TRUE,
                        locks |-> [ i \in 1..Len(req.filePaths) |->
                                      LockEntry(req, req.filePaths[i]) ] ] ]

\* ReleaseScript without the owner test
ReleaseScriptAnyOwner(h, filePaths, userId, i) ==
    [ g \in (DOMAIN h) \ Range(filePaths) |-> h[g] ]

\* the Lua script of releaseLocks, from the i-th file on: HDEL of the entries
\* whose user_id is the caller's
RECURSIVE ReleaseScript(_, _, _, _)
ReleaseScript(h, filePaths, userId, i) ==
    IF i > Len(filePaths) THEN h
    ELSE LET f == filePaths[i]
             h2 == IF f \in DOMAIN h /\ h[f].user_id = userId
                   THEN [ g \in (DOMAIN h) \ {f} |-> h[g] ]
                   ELSE h
         IN ReleaseScript(h2, filePaths, userId, i + 1)

\* GetLocksAt with no expiry filter
GetLocksAtUnfiltered(h, t) == h

\* GetLocksAt that still returns an entry at the instant of its expiry
GetLocksAtInclusive(h, t) ==
    [ f \in { g \in DOMAIN h : h[g].expiry >= t } |-> h[f] ]

\* getLocks: the entries of the hash that pass the filter at time t
GetLocksAt(h, t) ==
    [ f \in { g \in DOMAIN h : h[g].expiry > t } |-> h[f] ]

\* checkLocks: getLocks restricted to the requested paths
CheckLocksAt(h, t, filePaths) ==
    LET allLocks == GetLocksAt(h, t) IN
    [ f \in { g \in Range(filePaths) : g \in DOMAIN allLocks } |-> allLocks[f] ]

----------------------------------------------------------------------------
(* Actions *)

Init ==
    /\ now = 0
    /\ locks = << >>
    /\ inflight = {}
    /\ last = [kind |-> "init"]
    /\ remoteHead = "h1"
    /\ headCache = [present |-> FALSE]
    /\ nops = 0
    /\ otherLocks = << >>
    /\ graphKv = << >>
    /\ flights = << >>
    /\ refLog = {}
    /\ sweeps = << >>

Tick ==
    /\ \E t \in Instants :
         /\ t > now
         /\ now' = t
    /\ last' = [kind |-> "tick"]
    /\ UNCHANGED <<moreVars, locks, inflight, remoteHead, headCache, nops>>

\* acquireLocks up to the await of kv.eval: the timestamp is taken here
AcquireBegin ==
    /\ nops < MaxAcquires
    /\ \E r \in LockRequests :
         inflight' = inflight \cup
             { [op |-> "acquire", via |-> "acquireLocks", timestamp |-> now] @@ r }
    /\ nops' = nops + 1
    /\ last' = [kind |-> "begin"]
    /\ UNCHANGED <<moreVars, now, locks, remoteHead, headCache>>

\* the store runs the script of an acquireLocks call
AcquireEval ==
    \E req \in inflight :
       /\ req.op = "acquire"
       /\ req.via = "acquireLocks"
       /\ LET out == AcquireScript(locks, req) IN
          /\ locks' = out.hash
          /\ last' = [ kind |-> "acquire", req |-> req, result |-> out.result,
                     before |-> locks ]
       /\ inflight' = inflight \ {req}
       /\ UNCHANGED <<moreVars, now, remoteHead, headCache, nops>>

\* releaseLocks: the call and the store's run of its script (the handler
\* reads nothing before the script that the script's result depends on)
ReleaseLocks ==
    /\ \E u \in Users, fs \in FileSeqs :
         /\ locks' = ReleaseScript(locks, fs, u, 1)
         /\ last' = [ kind |-> "release", userId |-> u, filePaths |-> fs,
                      result |-> [success |-> TRUE], before |-> locks ]
    /\ UNCHANGED <<moreVars, now, inflight, remoteHead, headCache, nops>>

GetLocks ==
    /\ last' = [kind |-> "getLocks", at |-> now, result |-> GetLocksAt(locks, now)]
    /\ UNCHANGED <<moreVars, now, locks, inflight, remoteHead, headCache, nops>>

CheckLocks ==
    /\ \E fs \in FileSeqs :
         last' = [ kind |-> "checkLocks", at |-> now, filePaths |-> fs,
                   result |-> CheckLocksAt(locks, now, fs) ]
    /\ UNCHANGED <<moreVars, now, locks, inflight, remoteHead, headCache, nops>>

----------------------------------------------------------------------------
(* lib/github: the cached branch HEAD *)

\* getRepoHeadCached that serves an entry of any age
GetRepoHeadCachedForever(cache, remote, t) ==
    IF cache.present
    THEN [head |-> cache.sha, cache |-> cache]
    ELSE [ head |-> remote,
           cache |-> [present |-> TRUE, sha |-> remote, fetched_at |-> t] ]

\* getRepoHeadCached with the default maxAgeMs: the commit id it returns and
\* the cache entry it leaves
GetRepoHeadCached(cache, remote, t) ==
    IF /\ DEFAULT_REPO_HEAD_CACHE_MS > 0
       /\ cache.present
       /\ t - cache.fetched_at <= DEFAULT_REPO_HEAD_CACHE_MS
    THEN [head |-> cache.sha, cache |-> cache]
    ELSE [ head |-> remote,
           cache |-> [present |-> TRUE, sha |-> remote, fetched_at |-> t] ]

----------------------------------------------------------------------------
(* app/api/post_status *)

\* isNonEmptyString, on the strings of the model ("" stands for a missing or
\* blank field)
IsNonEmptyString(v) == v # ""

\* parseCoordinationStatus: the status, or "" for null
ParseCoordinationStatus(v) ==
    IF v \in {"READING", "WRITING", "OPEN"} THEN v ELSE ""

\* a || b || c on header values
HeaderOr(a, b, c) == IF a # "" THEN a ELSE IF b # "" THEN b ELSE c

UserIdOf(headers) == HeaderOr(headers.user, headers.username, "anonymous")

UserNameOf(headers) == HeaderOr(headers.username, headers.user, "Anonymous")

\* x-github-user / x-github-username as the callers send them
HeaderSets ==
    { [user |-> "alice", username |-> ""],
      [user |-> "", username |-> "bob"] }

ApiFileSeqs == { <<"x">>, <<"y", "x">> }

\* bodies of post_status requests: lock requests with and without an
\* agent_head (h1 is the remote HEAD until the push and behind it afterwards),
\* releases after and without a push, and one body for each way of failing
\* the validation
PostBodies ==
    { [ file_paths |-> fs, status |-> st, message |-> "edit",
        agent_head |-> ah, new_repo_head |-> "" ] :
        fs \in ApiFileSeqs, st \in {"WRITING", "READING"}, ah \in {"", "h1"} }
    \cup
    { [ file_paths |-> fs, status |-> "OPEN", message |-> "done",
        agent_head |-> "h1", new_repo_head |-> nh ] :
        fs \in ApiFileSeqs, nh \in {"h1", "h2"} }
    \cup
    { [ file_paths |-> << >>, status |-> "WRITING", message |-> "edit",
        agent_head |-> "h1", new_repo_head |-> "" ],
      [ file_paths |-> <<"x">>, status |-> "WRITING", message |-> "",
        agent_head |-> "h2", new_repo_head |-> "" ],
      [ file_paths |-> <<"x">>, status |-> "DONE", message |-> "edit",
        agent_head |-> "h1", new_repo_head |-> "" ] }

\* the two validations at the head of the handler
PassesValidation(body) ==
    /\ IsNonEmptyString(body.message)
    /\ ParseCoordinationStatus(body.status) # ""
    /\ Len(body.file_paths) > 0

MissingFields == [http |-> 400, error |-> "Missing required fields"]

PushResponse ==
    [ http |-> 400, success |-> FALSE, action |-> "PUSH", command |-> "git push",
      reason |-> <<"You need to push your changes to advance the repo">> ]

PullResponse(repoHead, agentHead) ==
    [ http |-> 200, success |-> FALSE, action |-> "PULL",
      command |-> "git pull --rebase",
      reason |-> <<"Your local repo is behind remote">>,
      metadata |-> [remote_head |-> repoHead, your_head |-> agentHead] ]

\* (orphaned_dependencies, read from the cached graph, is not part of the
\* lock machine)
ReleasedResponse ==
    [ http |-> 200, success |-> TRUE, action |-> "PROCEED", command |-> "",
      reason |-> <<"Locks released successfully">> ]

\* SwitchReason that passes the engine's reason on as it is
SwitchReasonBare(result) ==
    IF result.reason # "" THEN <<result.reason>> ELSE <<"Failed to acquire lock">>

\* the reason of the SWITCH_TASK response, as the parts the template joins
SwitchReason(result) ==
    IF /\ result.reason = "FILE_CONFLICT"
       /\ IsNonEmptyString(result.conflictingFile)
       /\ IsNonEmptyString(result.conflictingUser)
    THEN << result.reason, ": ", result.conflictingFile, " locked by ",
            result.conflictingUser >>
    ELSE IF result.reason # "" THEN <<result.reason>>
    ELSE <<"Failed to acquire lock">>

\* what the handler answers once acquireLocks has returned
LockResponse(req, result) ==
    IF ~result.success
    THEN [ http |-> 200, success |-> FALSE, action |-> "SWITCH_TASK",
           command |-> "", reason |-> SwitchReason(result) ]
    ELSE [ http |-> 200, success |-> TRUE, action |-> "PROCEED", command |-> "",
           reason |-> IF req.status = "READING"
                      THEN <<"Reading lock recorded">>
                      ELSE <<"Locks acquired successfully">>,
           locks |-> result.locks ]

\* StalenessGate that compares the heads whatever the status
StalenessGateAnyStatus(body, repoHead) ==
    IF ~IsNonEmptyString(body.agent_head)
    THEN IF body.status = "WRITING" THEN "400" ELSE "acquire"
    ELSE IF body.agent_head # repoHead THEN "PULL"
    ELSE "acquire"

\* the WRITING / READING branch up to the call of acquireLocks: "400", "PULL"
\* or "acquire"
StalenessGate(body, repoHead) ==
    IF ~IsNonEmptyString(body.agent_head)
    THEN IF body.status = "WRITING" THEN "400" ELSE "acquire"
    ELSE IF body.status = "WRITING" /\ body.agent_head # repoHead THEN "PULL"
    ELSE "acquire"

\* the clock of the route's scenarios: the instant of the first request and
\* one at which a HEAD cached then is too old
ApiInstants == {0, DEFAULT_REPO_HEAD_CACHE_MS + 1}

ApiTick ==
    /\ \E t \in ApiInstants :
         /\ t > now
         /\ now' = t
    /\ last' = [kind |-> "tick"]
    /\ UNCHANGED <<moreVars, locks, inflight, remoteHead, headCache, nops>>

\* the remote branch advances (somebody pushes)
Push ==
    /\ remoteHead = "h1"
    /\ remoteHead' = "h2"
    /\ last' = [kind |-> "push"]
    /\ UNCHANGED <<moreVars, now, locks, inflight, headCache, nops>>

\* a request that fails the validation is answered before anything is read
PostStatusInvalid ==
    /\ \E body \in PostBodies :
         /\ ~PassesValidation(body)
         /\ last' = [ kind |-> "post_status", body |-> body,
                      response |-> MissingFields, before |-> locks ]
    /\ UNCHANGED <<moreVars, now, locks, inflight, remoteHead, headCache, nops>>

\* ClaimsDoneUnpushed that refuses the callers whose two heads differ
ClaimsDoneUnpushedInverted(body) ==
    /\ IsNonEmptyString(body.new_repo_head)
    /\ IsNonEmptyString(body.agent_head)
    /\ body.new_repo_head # body.agent_head

\* status OPEN whose new_repo_head is the head the agent started from
ClaimsDoneUnpushed(body) ==
    /\ IsNonEmptyString(body.new_repo_head)
    /\ IsNonEmptyString(body.agent_head)
    /\ body.new_repo_head = body.agent_head

\* status OPEN: HEAD is resolved, then the request is refused with PUSH or
\* the release script runs (nothing the script reads is read before it)
PostStatusOpen ==
    \E headers \in HeaderSets, body \in PostBodies :
       /\ PassesValidation(body)
       /\ body.status = "OPEN"
       /\ headCache' = GetRepoHeadCached(headCache, remoteHead, now).cache
       /\ IF ClaimsDoneUnpushed(body)
          THEN /\ locks' = locks
               /\ last' = [ kind |-> "post_status", headers |-> headers,
                            body |-> body, response |-> PushResponse,
                            released |-> FALSE, before |-> locks ]
          ELSE /\ locks' = ReleaseScript(locks, body.file_paths, UserIdOf(headers), 1)
               /\ last' = [ kind |-> "post_status", headers |-> headers,
                            body |-> body, response |-> ReleasedResponse,
                            released |-> TRUE, before |-> locks ]
       /\ UNCHANGED <<moreVars, now, inflight, remoteHead, nops>>

\* status WRITING or READING, up to the await of kv.eval: HEAD is resolved,
\* the request is answered 400 or PULL, or acquireLocks takes its timestamp
\* and sends the script
PostStatusLock ==
    \E headers \in HeaderSets, body \in PostBodies :
       /\ PassesValidation(body)
       /\ body.status \in {"WRITING", "READING"}
       /\ LET resolved == GetRepoHeadCached(headCache, remoteHead, now)
              repoHead == resolved.head
              gate == StalenessGate(body, repoHead)
          IN
          /\ headCache' = resolved.cache
          /\ IF gate = "acquire"
             THEN /\ nops < MaxAcquires
                  /\ nops' = nops + 1
                  /\ inflight' = inflight \cup
                       { [ op |-> "acquire", via |-> "post_status",
                           timestamp |-> now,
                           userId |-> UserIdOf(headers),
                           userName |-> UserNameOf(headers),
                           filePaths |-> body.file_paths,
                           status |-> body.status,
                           message |-> body.message,
                           agentHead |-> IF IsNonEmptyString(body.agent_head)
                                         THEN body.agent_head ELSE repoHead,
                           agent_head |-> body.agent_head,
                           repoHead |-> repoHead ] }
                  /\ last' = [kind |-> "begin"]
             ELSE /\ UNCHANGED <<moreVars, inflight, nops>>
                  /\ last' = [ kind |-> "post_status", headers |-> headers,
                               body |-> body, repoHead |-> repoHead,
                               response |-> IF gate = "PULL"
                                            THEN PullResponse(repoHead, body.agent_head)
                                            ELSE MissingFields,
                               before |-> locks ]
       /\ UNCHANGED <<moreVars, now, locks, remoteHead>>

\* the store runs the script sent by a post_status handler, which answers
PostStatusEval ==
    \E req \in inflight :
       /\ req.op = "acquire"
       /\ req.via = "post_status"
       /\ LET out == AcquireScript(locks, req) IN
          /\ locks' = out.hash
          /\ last' = [ kind |-> "post_status_lock", req |-> req,
                       result |-> out.result,
                       response |-> LockResponse(req, out.result),
                       before |-> locks ]
       /\ inflight' = inflight \ {req}
       /\ UNCHANGED <<moreVars, now, remoteHead, headCache, nops>>

----------------------------------------------------------------------------
(* The check_status route *)

CheckFileSeqs == { <<"x">>, <<"z", "y">>, <<"y", "x">> }

\* request bodies of check_status: file_paths and agent_head ("" is a field
\* left out); repo_url and branch are the one repository of the model
CheckBodies ==
    { [file_paths |-> fs, agent_head |-> a] :
        fs \in CheckFileSeqs \cup { << >> }, a \in {"", "h1"} }

CheckPassesValidation(body) ==
    /\ IsNonEmptyString(body.agent_head)
    /\ Len(body.file_paths) > 0

\* Object.values(locks)[0]: checkLocks inserts what it finds in the order of
\* the requested paths
FirstLock(found, filePaths) ==
    LET hits == { i \in 1..Len(filePaths) : filePaths[i] \in DOMAIN found }
        first == CHOOSE i \in hits : \A j \in hits : i <= j
    IN  found[filePaths[first]]

\* let status = 'OK'; if (isStale) ...; if (locks non-empty) ...
CheckStatusStatus(isStale, found) ==
    LET afterStale == IF isStale THEN "STALE" ELSE "OK" IN
    IF DOMAIN found # {} THEN "CONFLICT" ELSE afterStale

\* CheckStatusOrchestration that looks at the locks before the staleness
CheckStatusOrchestrationLocksFirst(isStale, found, filePaths, repoHead) ==
    IF DOMAIN found # {}
    THEN [ action |-> "SWITCH_TASK", command |-> "",
           reason |-> << "File '", FirstLock(found, filePaths).file_path,
                         "' is locked by ",
                         FirstLock(found, filePaths).user_name, " (DIRECT)" >> ]
    ELSE IF isStale
    THEN [ action |-> "PULL", command |-> "git pull --rebase",
           reason |-> <<"Your local repo is behind. Current HEAD: ", repoHead>> ]
    ELSE [ action |-> "PROCEED", command |-> "", reason |-> << >> ]

CheckStatusOrchestration(isStale, found, filePaths, repoHead) ==
    IF isStale
    THEN [ action |-> "PULL", command |-> "git pull --rebase",
           reason |-> <<"Your local repo is behind. Current HEAD: ", repoHead>> ]
    ELSE IF DOMAIN found # {}
    THEN [ action |-> "SWITCH_TASK", command |-> "",
           reason |-> << "File '", FirstLock(found, filePaths).file_path,
                         "' is locked by ",
                         FirstLock(found, filePaths).user_name, " (DIRECT)" >> ]
    ELSE [ action |-> "PROCEED", command |-> "", reason |-> << >> ]

CheckStatusResponse(body, repoHead, found) ==
    LET isStale == body.agent_head # repoHead IN
    [ http |-> 200,
      status |-> CheckStatusStatus(isStale, found),
      repo_head |-> repoHead,
      locks |-> found,
      warnings |-> IF isStale THEN <<"STALE_BRANCH">> ELSE << >>,
      orchestration |->
          CheckStatusOrchestration(isStale, found, body.file_paths, repoHead) ]

CheckStatusInvalid ==
    /\ \E body \in CheckBodies :
         /\ ~CheckPassesValidation(body)
         /\ last' = [ kind |-> "check_status_invalid", body |-> body,
                      response |-> MissingFields ]
    /\ UNCHANGED <<moreVars, now, locks, inflight, remoteHead, headCache, nops>>

\* a valid request: the remote HEAD is read (getRepoHead, no cache), then
\* the locks (checkLocks, filtered at its own Date.now())
CheckStatus ==
    /\ \E body \in CheckBodies :
         /\ CheckPassesValidation(body)
         /\ last' = [ kind |-> "check_status", body |-> body, at |-> now,
                      repoHead |-> remoteHead,
                      response |-> CheckStatusResponse(body, remoteHead,
                                      CheckLocksAt(locks, now, body.file_paths)),
                      before |-> locks ]
    /\ UNCHANGED <<moreVars, now, locks, inflight, remoteHead, headCache, nops>>

----------------------------------------------------------------------------
(* The sweep: cleanupExpiredLocks and the cleanup_stale_locks route *)

\* parseLockEntry: the stored value has every field of a LockEntry
ParseLockEntry(value) ==
    /\ { "file_path", "user_id", "user_name", "status", "agent_head",
         "message", "timestamp", "expiry" } \subseteq DOMAIN value
    /\ value.status \in {"READING", "WRITING"}

\* the sweep of one hash that also deletes what expires at this very instant
CleanupHashInclusive(h, t) ==
    LET gone == { f \in DOMAIN h : ~ParseLockEntry(h[f]) \/ h[f].expiry <= t } IN
    [ hash    |-> [ f \in DOMAIN h \ gone |-> h[f] ],
      cleaned |-> Cardinality(gone) ]

\* the inner loop of cleanupExpiredLocks over the entries of one key, with
\* no other client at work: hdel of every entry that does not parse or has
\* expiry < now
CleanupHash(h, t) ==
    LET gone == { f \in DOMAIN h : ~ParseLockEntry(h[f]) \/ h[f].expiry < t } IN
    [ hash    |-> [ f \in DOMAIN h \ gone |-> h[f] ],
      cleaned |-> Cardinality(gone) ]

\* acquireLocks on the second (repo, branch), its script run at once
AcquireOther ==
    /\ nops < MaxAcquires
    /\ \E r \in LockRequests :
         LET req == [op |-> "acquire", via |-> "acquireLocks", timestamp |-> now] @@ r
             out == AcquireScript(otherLocks, req)
         IN  /\ otherLocks' = out.hash
             /\ last' = [ kind |-> "acquire_other", req |-> req,
                          result |-> out.result ]
    /\ nops' = nops + 1
    /\ UNCHANGED <<refLog, sweeps, now, locks, inflight, remoteHead, headCache, graphKv, flights>>

\* GET cleanup_stale_locks without the cron secret
CleanupUnauthorized ==
    /\ last' = [ kind |-> "cleanup_unauthorized",
                 response |-> [http |-> 401, error |-> "Unauthorized"] ]
    /\ UNCHANGED <<now, locks, inflight, remoteHead, headCache, nops, moreVars>>

\* GET cleanup_stale_locks: cleanupExpiredLocks over every key locks:*, no
\* lock operation running beside it
CleanupStaleLocks ==
    LET first  == CleanupHash(locks, now)
        second == CleanupHash(otherLocks, now)
        count  == first.cleaned + second.cleaned
    IN  /\ locks' = first.hash
        /\ otherLocks' = second.hash
        /\ last' = [ kind |-> "sweep", at |-> now, cleaned |-> count,
                     before |-> locks, beforeOther |-> otherLocks,
                     response |-> [ http |-> 200, success |-> TRUE,
                                    cleaned |-> count ] ]
        /\ UNCHANGED <<refLog, sweeps, now, inflight, remoteHead, headCache, nops, graphKv, flights>>

----------------------------------------------------------------------------
(* GraphService.withSingleFlight: the in-flight map of one process *)

\* the bound on the operations one run starts
MaxOperations == 3

\* getInFlightKey() of two (repo, branch) pairs
FlightKeys == {"repo-a:main", "repo-b:main"}

\* the requests that call get() in this process
Callers == {"c1", "c2", "c3"}

\* what an operation settles with: a graph it resolved with or the error it
\* threw
Outcomes ==
    { [ok |-> TRUE, graph |-> "graph-1"], [ok |-> TRUE, graph |-> "graph-2"],
      [ok |-> FALSE, error |-> "quota"] }

InitFlights ==
    [ inFlight |-> << >>,   \* GraphService.inFlight: key -> promise
      running  |-> {},      \* operations started and not settled
      awaiting |-> << >>,   \* caller -> the promise it was handed
      received |-> << >>,   \* caller -> what its promise settled with
      settled  |-> << >>,   \* operation -> what it settled with
      started  |-> 0 ]      \* operations started so far

\* const existing = GraphService.inFlight.get(key)
InFlightGet(map, key) == IF key \in DOMAIN map THEN map[key] ELSE 0

\* withSingleFlight that starts the operation and does not record it
InFlightSetForgotten(map, key, id) == map

\* GraphService.inFlight.set(key, promise)
InFlightSet(map, key, id) ==
    [ k \in DOMAIN map \cup {key} |-> IF k = key THEN id ELSE map[k] ]

\* a finally callback that leaves the map as it is
InFlightDeleteNever(map, key) == map

\* GraphService.inFlight.delete(key)
InFlightDelete(map, key) == [ k \in DOMAIN map \ {key} |-> map[k] ]

\* get(forceRegenerate) up to the return of withSingleFlight: the caller is
\* handed the promise found under the key, or the operation is started (it
\* runs to its first await), recorded under the key and its promise handed
\* out. Nothing suspends in between.
FlightGet ==
    \E c \in Callers \ DOMAIN flights.awaiting,
       key \in FlightKeys, force \in BOOLEAN :
       LET existing == InFlightGet(flights.inFlight, key)
           id       == flights.started + 1
           handed   == IF existing # 0 THEN existing ELSE id
       IN  /\ existing = 0 => flights.started < MaxOperations
           /\ flights' =
                [ flights EXCEPT
                    !.inFlight = IF existing # 0 THEN @
                                 ELSE InFlightSet(@, key, id),
                    !.running  = IF existing # 0 THEN @
                                 ELSE @ \cup {[id |-> id, key |-> key,
                                               force |-> force]},
                    !.started  = IF existing # 0 THEN @ ELSE id,
                    !.awaiting = [ d \in DOMAIN @ \cup {c} |->
                                     IF d = c
                                     THEN [op |-> handed, key |-> key,
                                           force |-> force]
                                     ELSE @[d] ],
                    !.received = [ d \in DOMAIN @ \ {c} |-> @[d] ] ]
           /\ last' = [ kind |-> "flight_get", caller |-> c, key |-> key,
                        force |-> force, before |-> flights ]
           /\ UNCHANGED <<refLog, sweeps, now, locks, inflight, remoteHead, headCache, nops,
                          otherLocks, graphKv>>

\* an operation settles: the finally callback deletes the key, then the
\* promise handed out settles for every caller awaiting it
FlightSettle ==
    \E op \in flights.running, outcome \in Outcomes :
       LET waiters == { c \in DOMAIN flights.awaiting :
                          flights.awaiting[c].op = op.id }
       IN  /\ flights' =
                [ flights EXCEPT
                    !.inFlight = InFlightDelete(@, op.key),
                    !.running  = @ \ {op},
                    !.settled  = [ i \in DOMAIN @ \cup {op.id} |->
                                     IF i = op.id THEN outcome ELSE @[i] ],
                    !.awaiting = [ d \in DOMAIN @ \ waiters |-> @[d] ],
                    !.received = [ d \in DOMAIN @ \cup waiters |->
                                     IF d \in waiters
                                     THEN [op |-> op.id, key |-> op.key,
                                           outcome |-> outcome]
                                     ELSE @[d] ] ]
           /\ last' = [ kind |-> "flight_settle", op |-> op,
                        outcome |-> outcome, waiters |-> waiters,
                        before |-> flights ]
           /\ UNCHANGED <<refLog, sweeps, now, locks, inflight, remoteHead, headCache, nops,
                          otherLocks, graphKv>>

InitFlight ==
    /\ now = 0
    /\ locks = << >>
    /\ inflight = {}
    /\ last = [kind |-> "init"]
    /\ remoteHead = "h1"
    /\ headCache = [present |-> FALSE]
    /\ nops = 0
    /\ otherLocks = << >>
    /\ graphKv = << >>
    /\ flights = InitFlights
    /\ refLog = {}
    /\ sweeps = << >>

----------------------------------------------------------------------------
(* The remote repository of the graph service: commits, trees, contents *)

\* A path is its '/'-separated segments without the extension of the last
\* one, and that extension: src/d.tsx is [segs |-> <<"src","d">>, ext |-> ".tsx"]
PathU  == [segs |-> <<"src", "u">>, ext |-> ".ts"]
PathD  == [segs |-> <<"src", "d">>, ext |-> ".ts"]
PathDx == [segs |-> <<"src", "d">>, ext |-> ".tsx"]
PathReadme == [segs |-> <<"README">>, ext |-> ".md"]

\* the paths of the model in the order the tree lists them
TreePaths == <<PathReadme, PathD, PathDx, PathU>>

\* a.localeCompare(b) < 0 on these paths
PathBefore(a, b) ==
    LET rank(p) == CHOOSE i \in 1..Len(TreePaths) : TreePaths[i] = p
    IN  rank(a) < rank(b)

\* File contents by blob sha, as lines. A line is an ES import of a module
\* (the specifier split at '/'), a comment quoting one, or other code.
ContentOf(sha) ==
    CASE sha = "sha-a" ->
           << [kind |-> "import", module |-> <<".", "d">>] >>
      [] sha = "sha-b" ->
           << [kind |-> "code"],
              [kind |-> "comment", module |-> <<".", "u">>] >>
      [] sha = "sha-c" ->
           << [kind |-> "import", module |-> <<"react">>],
              [kind |-> "export", module |-> <<".", "u">>],
              [kind |-> "import", module |-> <<".", "u">>] >>
      [] sha = "sha-e" ->
           << [kind |-> "import", module |-> <<".", "d">>],
              [kind |-> "import", module |-> <<".", "u">>] >>
      [] OTHER -> << [kind |-> "code"] >>

\* A commit is named by what its tree holds at the three source paths ("" is
\* no file); every tree also holds the README. The commits the branch may
\* point at: files added, changed, deleted and renamed between them.
Commits ==
    { [u |-> "",      d |-> "",      dx |-> ""],
      [u |-> "sha-a", d |-> "sha-b", dx |-> ""],
      [u |-> "sha-a", d |-> "sha-b", dx |-> "sha-b"],
      [u |-> "sha-a", d |-> "",      dx |-> "sha-b"],
      [u |-> "sha-a", d |-> "sha-c", dx |-> ""],
      [u |-> "sha-b", d |-> "sha-c", dx |-> ""],
      [u |-> "",      d |-> "sha-c", dx |-> ""] }

ShaAt(commit, path) ==
    CASE path = PathU      -> commit.u
      [] path = PathD      -> commit.d
      [] path = PathDx     -> commit.dx
      [] path = PathReadme -> "sha-readme"
      [] OTHER             -> ""

\* rest.git.getTree(recursive): the blobs of the commit, in path order
RECURSIVE TreeItems(_, _)
TreeItems(commit, i) ==
    IF i > Len(TreePaths) THEN << >>
    ELSE LET p == TreePaths[i] IN
         (IF ShaAt(commit, p) = "" THEN << >>
          ELSE << [ path |-> p, sha |-> ShaAt(commit, p), type |-> "blob",
                    size |-> Len(ContentOf(ShaAt(commit, p))) ] >>)
         \o TreeItems(commit, i + 1)

----------------------------------------------------------------------------
(* lib/parser and lib/resolver *)

SupportedExtensions == <<".ts", ".tsx", ".js", ".jsx", ".py">>

\* getFileLanguage
GetFileLanguage(path) ==
    CASE path.ext \in {".ts", ".tsx"} -> "ts"
      [] path.ext \in {".js", ".jsx"} -> "js"
      [] path.ext = ".py"             -> "py"
      [] OTHER                        -> ""

\* parseImports for 'ts' and 'js': the modules of the import and export-from
\* lines, in line order; comment lines are skipped
RECURSIVE ParseImports(_, _)
ParseImports(content, i) ==
    IF i > Len(content) THEN << >>
    ELSE (IF content[i].kind \in {"import", "export"}
          THEN << content[i].module >> ELSE << >>)
         \o ParseImports(content, i + 1)

\* isRelativeImport: the specifier starts with '.' or '/'
IsRelativeImport(module) == module[1] \in {".", "..", ""}

\* resolvePath: the directory's segments with the specifier's applied
RECURSIVE ResolvePath(_, _, _)
ResolvePath(parts, module, i) ==
    IF i > Len(module) THEN parts
    ELSE IF module[i] = ".."
         THEN ResolvePath(IF Len(parts) > 0 THEN SubSeq(parts, 1, Len(parts) - 1)
                          ELSE parts, module, i + 1)
    ELSE IF module[i] \in {".", ""}
         THEN ResolvePath(parts, module, i + 1)
    ELSE ResolvePath(Append(parts, module[i]), module, i + 1)

\* generateCandidates: the base path with each extension, then its index files
GenerateCandidates(base) ==
    [ i \in 1..5 |-> [segs |-> base, ext |-> SupportedExtensions[i]] ]
    \o [ i \in 1..4 |-> [segs |-> Append(base, "index"),
                         ext |-> SupportedExtensions[i]] ]

\* resolveImportPath that takes the last candidate present in the tree
ResolveImportPathLast(module, currentFilePath, allFilePaths) ==
    IF ~IsRelativeImport(module) THEN << >>
    ELSE LET segs == currentFilePath.segs
             dir  == SubSeq(segs, 1, Len(segs) - 1)
             cand == GenerateCandidates(ResolvePath(dir, module, 1))
             hits == { i \in 1..Len(cand) : cand[i] \in allFilePaths }
         IN  IF hits = {} THEN << >>
             ELSE << cand[CHOOSE i \in hits : \A j \in hits : j <= i] >>

\* resolveImportPath: the first candidate that is a file of the tree, as a
\* one-element sequence; the empty sequence is null
ResolveImportPath(module, currentFilePath, allFilePaths) ==
    IF ~IsRelativeImport(module) THEN << >>
    ELSE LET segs == currentFilePath.segs
             dir  == SubSeq(segs, 1, Len(segs) - 1)
             cand == GenerateCandidates(ResolvePath(dir, module, 1))
             hits == { i \in 1..Len(cand) : cand[i] \in allFilePaths }
         IN  IF hits = {} THEN << >>
             ELSE << cand[CHOOSE i \in hits : \A j \in hits : i <= j] >>

----------------------------------------------------------------------------
(* lib/graph-service: the keys of one (repo, branch) and the build *)

HEAD_CHECK_MIN_INTERVAL_MS == 20000

RATE_LIMIT_FALLBACK_COOLDOWN_MS == 60000

\* The keys before the first build. A key that may be missing holds the
\* empty sequence or its value as a one-element sequence; the two numbers
\* are 0 when missing (the code reads 0 and null alike).
EmptyGraphKv ==
    [ graph            |-> << >>,
      meta             |-> << >>,
      fileShas         |-> << >>,
      fileContents     |-> << >>,
      headCheckedAt    |-> 0,
      rateLimitedUntil |-> 0 ]

\* A remote call that fails: the at-th call of a get() throws, a quota error
\* (with the headers that tell when the quota resets) or another error.
NoFault == [at |-> 0, kind |-> "none", retryAfterMs |-> 0, resetAtMs |-> 0]

\* one call to the remote: it is counted, and it throws if it is the one
\* that fails
Remote(calls, fault, call) ==
    [ calls  |-> Append(calls, call),
      failed |-> IF fault.at = Len(calls) + 1 THEN fault.kind ELSE "" ]

\* getRepoHeadCached that takes an entry exactly maxAgeMs old for too old
GetRepoHeadCachedMaxAgeStrict(cache, remote, t, maxAgeMs, calls, fault) ==
    IF /\ maxAgeMs > 0
       /\ cache.present
       /\ t - cache.fetched_at < maxAgeMs
    THEN [head |-> <<cache.sha>>, cache |-> cache, calls |-> calls, failed |-> ""]
    ELSE LET r == Remote(calls, fault, [api |-> "getRef"]) IN
         IF r.failed # ""
         THEN [head |-> << >>, cache |-> cache, calls |-> r.calls,
               failed |-> r.failed]
         ELSE [ head |-> <<remote>>,
                cache |-> [present |-> TRUE, sha |-> remote, fetched_at |-> t],
                calls |-> r.calls, failed |-> "" ]

\* getRepoHeadCached(owner, repo, branch, maxAgeMs, client)
GetRepoHeadCachedMaxAge(cache, remote, t, maxAgeMs, calls, fault) ==
    IF /\ maxAgeMs > 0
       /\ cache.present
       /\ t - cache.fetched_at <= maxAgeMs
    THEN [head |-> <<cache.sha>>, cache |-> cache, calls |-> calls, failed |-> ""]
    ELSE LET r == Remote(calls, fault, [api |-> "getRef"]) IN
         IF r.failed # ""
         THEN [head |-> << >>, cache |-> cache, calls |-> r.calls,
               failed |-> r.failed]
         ELSE [ head |-> <<remote>>,
                cache |-> [present |-> TRUE, sha |-> remote, fetched_at |-> t],
                calls |-> r.calls, failed |-> "" ]

\* getCached that returns the locks member of the stored graph
GetCachedFromBlob(kv, lockHash, t) ==
    IF kv.graph = << >> THEN << >>
    ELSE << kv.graph[1] >>

\* getCached: the stored graph with the live locks laid over it
GetCached(kv, lockHash, t) ==
    IF kv.graph = << >> THEN << >>
    ELSE << [kv.graph[1] EXCEPT !.locks = GetLocksAt(lockHash, t)] >>

\* the files of a tree that the graph covers
SupportedFiles(items) ==
    SelectSeq(items, LAMBDA it :
        /\ it.type = "blob"
        /\ \E i \in 1..Len(SupportedExtensions) :
              it.path.ext = SupportedExtensions[i])

\* the edges left when deleted files go: DropDeleted that looks at the
\* source only
DropDeletedBySource(edges, deletedFiles) ==
    SelectSeq(edges, LAMBDA e : e.source \notin deletedFiles)

\* edges.filter(edge => !deleted.includes(source) && !deleted.includes(target))
DropDeleted(edges, deletedFiles) ==
    SelectSeq(edges, LAMBDA e :
        e.source \notin deletedFiles /\ e.target \notin deletedFiles)

\* DropChanged that keeps the edges of the changed files
DropChangedNone(edges, changedSet) == edges

\* edges.filter(edge => !changedSet.has(edge.source))
DropChanged(edges, changedSet) ==
    SelectSeq(edges, LAMBDA e : e.source \notin changedSet)

\* the contents hash after kv.hdel of the shas the deleted paths had
EvictDeleted(contents, storedShas, deletedFiles) ==
    LET deletedShas == { storedShas[p] : p \in deletedFiles } IN
    [ s \in DOMAIN contents \ deletedShas |-> contents[s] ]

\* the imports of one file turned into edges: every import that resolves to
\* a file of the tree and is not yet an edge
RECURSIVE AddEdges(_, _, _, _, _)
AddEdges(edges, filePath, imports, i, allFilePaths) ==
    IF i > Len(imports) THEN edges
    ELSE LET resolved == ResolveImportPath(imports[i], filePath, allFilePaths)
             known    == \E k \in 1..Len(edges) :
                            /\ edges[k].source = filePath
                            /\ resolved # << >>
                            /\ edges[k].target = resolved[1]
             next     == IF resolved = << >> \/ known THEN edges
                         ELSE Append(edges, [ source |-> filePath,
                                              target |-> resolved[1],
                                              type   |-> "import" ])
         IN  AddEdges(next, filePath, imports, i + 1, allFilePaths)

\* the loop over filesToProcess. st holds nodes, edges, the contents hash,
\* the remote calls made, processedCount and the error thrown, if any.
RECURSIVE ProcessFiles(_, _, _, _, _, _)
ProcessFiles(files, i, st, head, allFilePaths, fault) ==
    IF i > Len(files) \/ st.failed # "" THEN st
    ELSE
    LET file   == files[i]
        node   == [ id |-> file.path, type |-> "file", size |-> file.size,
                    language |-> GetFileLanguage(file.path) ]
        nodes1 == IF \E k \in 1..Len(st.nodes) : st.nodes[k].id = file.path
                  THEN [ k \in 1..Len(st.nodes) |->
                           IF st.nodes[k].id = file.path THEN node
                           ELSE st.nodes[k] ]
                  ELSE Append(st.nodes, node)
        hit    == file.sha \in DOMAIN st.contents
        fetch  == Remote(st.calls, fault,
                         [ api |-> "getContent", path |-> file.path,
                           sha |-> file.sha ])
        calls1 == IF hit THEN st.calls ELSE fetch.calls
        failed == IF hit THEN "" ELSE fetch.failed
        content   == IF hit THEN st.contents[file.sha] ELSE ContentOf(file.sha)
        contents1 == IF hit \/ failed # "" THEN st.contents
                     ELSE [ s \in DOMAIN st.contents \cup {file.sha} |->
                              IF s = file.sha THEN content ELSE st.contents[s] ]
    IN  IF failed = "quota"
        THEN [st EXCEPT !.nodes = nodes1, !.calls = calls1, !.failed = "quota"]
        ELSE IF failed = "error" \/ GetFileLanguage(file.path) = ""
        THEN ProcessFiles(files, i + 1,
                 [st EXCEPT !.nodes = nodes1, !.calls = calls1,
                            !.contents = contents1],
                 head, allFilePaths, fault)
        ELSE ProcessFiles(files, i + 1,
                 [st EXCEPT !.nodes = nodes1, !.calls = calls1,
                            !.contents = contents1,
                            !.edges = AddEdges(st.edges, file.path,
                                          ParseImports(content, 1), 1,
                                          allFilePaths),
                            !.processed = @ + 1],
                 head, allFilePaths, fault)

\* the file_shas hash that keeps the paths deleted from the tree
PersistFileShasKeepDeleted(storedShas, deletedFiles, files) ==
    [ p \in DOMAIN storedShas \cup { files[i].path : i \in 1..Len(files) } |->
        IF \E i \in 1..Len(files) : files[i].path = p
        THEN (CHOOSE f \in { files[i] : i \in 1..Len(files) } : f.path = p).sha
        ELSE storedShas[p] ]

\* pipeline.hdel(fileShas, ...deletedFiles); pipeline.hset(fileShas, newShas)
PersistFileShas(storedShas, deletedFiles, files) ==
    [ p \in (DOMAIN storedShas \ deletedFiles)
            \cup { files[i].path : i \in 1..Len(files) } |->
        IF \E i \in 1..Len(files) : files[i].path = p
        THEN (CHOOSE f \in { files[i] : i \in 1..Len(files) } : f.path = p).sha
        ELSE storedShas[p] ]

\* the graph persisted with nodes and edges in the order the loop left them
BuiltGraphUnsorted(done, head, t) ==
    [ nodes    |-> done.nodes,
      edges    |-> done.edges,
      locks    |-> << >>,
      version  |-> head,
      metadata |-> [ generated_at    |-> t,
                     files_processed |-> done.processed,
                     edges_found     |-> Len(done.edges) ] ]

\* the graph a build persists: nodes and edges sorted, no locks
BuiltGraph(done, head, t) ==
    [ nodes    |-> SortSeq(done.nodes, LAMBDA a, b : PathBefore(a.id, b.id)),
      edges    |-> SortSeq(done.edges, LAMBDA a, b :
                      \/ PathBefore(a.source, b.source)
                      \/ /\ a.source = b.source
                         /\ PathBefore(a.target, b.target)),
      locks    |-> << >>,
      version  |-> head,
      metadata |-> [ generated_at    |-> t,
                     files_processed |-> done.processed,
                     edges_found     |-> Len(done.edges) ] ]

\* the end of generate(): a quota error of the loop is thrown (what was
\* written to the contents hash stays); otherwise the pipeline persists the
\* graph, the version and the file shas, and the graph is returned with the
\* live locks
BuildPersist(kv, cache, lockHash, head, t, files, deletedFiles, done) ==
    IF done.failed # ""
    THEN [ kv |-> [kv EXCEPT !.fileContents = done.contents],
           cache |-> cache, calls |-> done.calls, failed |-> done.failed,
           built |-> FALSE, graph |-> << >> ]
    ELSE [ kv |-> [ kv EXCEPT
                      !.graph = << BuiltGraph(done, head, t) >>,
                      !.meta = <<head>>,
                      !.fileShas = PersistFileShas(kv.fileShas, deletedFiles,
                                                   files),
                      !.fileContents = done.contents ],
           cache |-> cache, calls |-> done.calls, failed |-> "",
           built |-> TRUE,
           graph |-> << [ BuiltGraph(done, head, t) EXCEPT
                            !.locks = GetLocksAt(lockHash, t) ] >> ]

\* the nodes and edges the loop starts from and the files it visits, given
\* the diff of the tree against file_shas
BuildLoop(kv, files, newFiles, changedFiles, deletedFiles, calls, head, fault) ==
    LET hasExistingGraph == kv.graph # << >>
        allFilePaths == { files[i].path : i \in 1..Len(files) }
        changedSet   == { changedFiles[i].path : i \in 1..Len(changedFiles) }
        nodes == IF hasExistingGraph
                 THEN SelectSeq(kv.graph[1].nodes,
                                LAMBDA n : n.id \notin deletedFiles)
                 ELSE << >>
        edges == IF hasExistingGraph
                 THEN DropChanged(DropDeleted(kv.graph[1].edges, deletedFiles),
                                  changedSet)
                 ELSE << >>
        needsFullRebuild ==
            \/ ~hasExistingGraph
            \/ Len(newFiles) > 0
            \/ (Len(files) > 0 /\ Len(nodes) = 0
                /\ Len(newFiles \o changedFiles) = 0)
    IN  ProcessFiles(
            IF needsFullRebuild THEN files ELSE newFiles \o changedFiles, 1,
            [ nodes     |-> IF needsFullRebuild THEN << >> ELSE nodes,
              edges     |-> IF needsFullRebuild THEN << >> ELSE edges,
              contents  |-> IF hasExistingGraph /\ deletedFiles # {}
                            THEN EvictDeleted(kv.fileContents, kv.fileShas,
                                              deletedFiles)
                            ELSE kv.fileContents,
              calls     |-> calls,
              processed |-> 0,
              failed    |-> "" ],
            head, allFilePaths, fault)

\* generate() from the supported files of the tree on: the diff against
\* file_shas, the loop and the persistence
BuildFromFiles(kv, cache, lockHash, head, t, calls, fault, files) ==
    LET storedShas   == kv.fileShas
        newFiles     == SelectSeq(files, LAMBDA f : f.path \notin DOMAIN storedShas)
        changedFiles == SelectSeq(files, LAMBDA f :
                            /\ f.path \in DOMAIN storedShas
                            /\ storedShas[f.path] # f.sha)
        deletedFiles == DOMAIN storedShas
                        \ { files[i].path : i \in 1..Len(files) }
    IN  BuildPersist(kv, cache, lockHash, head, t, files, deletedFiles,
            BuildLoop(kv, files, newFiles, changedFiles, deletedFiles, calls,
                      head, fault))

\* generate() once the tree request has been made
BuildFromTree(kv, cache, lockHash, head, t, fault, tree) ==
    IF tree.failed # ""
    THEN [ kv |-> kv, cache |-> cache, calls |-> tree.calls,
           failed |-> tree.failed, built |-> FALSE, graph |-> << >> ]
    ELSE BuildFromFiles(kv, cache, lockHash, head, t, tree.calls, fault,
                        SupportedFiles(TreeItems(head, 1)))

\* generate() once the HEAD has been resolved as h: the stored graph if it
\* is of that HEAD (and the call is not forced), or a build
GenerateAtHead(kv, lockHash, t, force, fault, h) ==
    IF h.failed # ""
    THEN [ kv |-> kv, cache |-> h.cache, calls |-> h.calls,
           failed |-> h.failed, built |-> FALSE, graph |-> << >> ]
    ELSE IF ~force /\ kv.meta = h.head /\ kv.graph # << >>
    THEN [ kv |-> kv, cache |-> h.cache, calls |-> h.calls, failed |-> "",
           built |-> FALSE, graph |-> GetCached(kv, lockHash, t) ]
    ELSE BuildFromTree(kv, h.cache, lockHash, h.head[1], t, fault,
             Remote(h.calls, fault, [api |-> "getTree", sha |-> h.head[1]]))

\* generate(force)
Generate(kv, cache, lockHash, remote, t, force, calls, fault) ==
    GenerateAtHead(kv, lockHash, t, force, fault,
        GetRepoHeadCachedMaxAge(cache, remote, t,
            IF force THEN 0 ELSE HEAD_CHECK_MIN_INTERVAL_MS, calls, fault))

\* getGitHubQuotaResetMs: retry-after counts from now, x-ratelimit-reset is
\* an instant; 0 is null
GetGitHubQuotaResetMs(fault, t) ==
    IF fault.retryAfterMs > 0 THEN t + fault.retryAfterMs
    ELSE IF fault.resetAtMs > 0 THEN fault.resetAtMs
    ELSE 0

\* the cooldown without its floor of five seconds
ApplyRateLimitCooldownNoFloor(fault, t) ==
    IF GetGitHubQuotaResetMs(fault, t) # 0
    THEN GetGitHubQuotaResetMs(fault, t)
    ELSE t + RATE_LIMIT_FALLBACK_COOLDOWN_MS

\* applyRateLimitCooldown: the instant stored in rate_limited_until
ApplyRateLimitCooldown(fault, t) ==
    LET resetAt == IF GetGitHubQuotaResetMs(fault, t) # 0
                   THEN GetGitHubQuotaResetMs(fault, t)
                   ELSE t + RATE_LIMIT_FALLBACK_COOLDOWN_MS
    IN  IF resetAt >= t + 5000 THEN resetAt ELSE t + 5000

\* shouldSkipHeadCheck that never lets the check be skipped
ShouldSkipHeadCheckNever(kv, t) == FALSE

\* shouldSkipHeadCheck
ShouldSkipHeadCheck(kv, t) ==
    /\ kv.headCheckedAt # 0
    /\ t - kv.headCheckedAt < HEAD_CHECK_MIN_INTERVAL_MS

\* get() with a cached graph, after setHeadCheckedAt and the HEAD that
\* needsUpdate resolved as h: the cached graph if it is of that HEAD, or a
\* build
GetAfterHeadCheck(kv1, lockHash, remote, t, fault, cached, h) ==
    IF h.failed # ""
    THEN [ kv |-> kv1, cache |-> h.cache, calls |-> h.calls,
           failed |-> h.failed, built |-> FALSE, graph |-> << >> ]
    ELSE IF h.head = kv1.meta
    THEN [ kv |-> kv1, cache |-> h.cache, calls |-> h.calls, failed |-> "",
           built |-> FALSE, graph |-> cached ]
    ELSE Generate(kv1, h.cache, lockHash, remote, t, FALSE, h.calls, fault)

\* the try block of get(): forced regeneration, the cached graph behind the
\* throttled HEAD check, or a build
GetBody(kv, cache, lockHash, remote, t, force, fault, cached) ==
    IF force \/ cached = << >>
    THEN Generate(kv, cache, lockHash, remote, t, force, << >>, fault)
    ELSE IF ShouldSkipHeadCheck(kv, t)
    THEN [ kv |-> kv, cache |-> cache, calls |-> << >>, failed |-> "",
           built |-> FALSE, graph |-> cached ]
    ELSE GetAfterHeadCheck([kv EXCEPT !.headCheckedAt = t], lockHash, remote,
             t, fault, cached,
             GetRepoHeadCachedMaxAge(cache, remote, t,
                 DEFAULT_REPO_HEAD_CACHE_MS, << >>, fault))

\* the end of get(): what the try block returned, or its catch: a quota
\* error starts the cooldown and is answered with the cached graph if there
\* is one; any other error, and a quota error without a cached graph, is
\* thrown
GetSettle(lockHash, t, fault, cached, r) ==
    IF r.failed = ""
    THEN [ kv |-> r.kv, cache |-> r.cache, calls |-> r.calls,
           built |-> r.built,
           outcome |-> [ok |-> TRUE, graph |-> r.graph[1]] ]
    ELSE IF r.failed = "quota"
    THEN [ kv |-> [ r.kv EXCEPT
                      !.rateLimitedUntil = ApplyRateLimitCooldown(fault, t) ],
           cache |-> r.cache, calls |-> r.calls, built |-> FALSE,
           outcome |-> IF cached # << >>
                       THEN [ok |-> TRUE, graph |-> cached[1]]
                       ELSE IF GetCached(r.kv, lockHash, t) # << >>
                       THEN [ok |-> TRUE, graph |-> GetCached(r.kv, lockHash, t)[1]]
                       ELSE [ok |-> FALSE, error |-> "quota"] ]
    ELSE [ kv |-> r.kv, cache |-> r.cache, calls |-> r.calls,
           built |-> FALSE,
           outcome |-> [ok |-> FALSE, error |-> r.failed] ]

\* the test at the head of get() that never finds the cooldown running
RateLimitedNever(kv, t) == FALSE

\* rateLimitedUntil && rateLimitedUntil > now
RateLimited(kv, t) == kv.rateLimitedUntil # 0 /\ kv.rateLimitedUntil > t

\* get() between its first two reads and its return, cached being what
\* getCached() gave
GetWithCached(kv, cache, lockHash, remote, t, force, fault, cached) ==
    IF RateLimited(kv, t)
    THEN [ kv |-> kv, cache |-> cache, calls |-> << >>, built |-> FALSE,
           outcome |-> IF cached # << >>
                       THEN [ok |-> TRUE, graph |-> cached[1]]
                       ELSE [ok |-> FALSE, status |-> 429,
                             retryAt |-> kv.rateLimitedUntil] ]
    ELSE GetSettle(lockHash, t, fault, cached,
             GetBody(kv, cache, lockHash, remote, t, force, fault, cached))

\* the operation get() runs under withSingleFlight
Get(kv, cache, lockHash, remote, t, force, fault) ==
    GetWithCached(kv, cache, lockHash, remote, t, force, fault,
                  GetCached(kv, lockHash, t))

\* the instants of the graph scenarios: a first request, one after the HEAD
\* check interval, one at the end of the shortest cooldown begun there, and
\* one after the fallback cooldown begun there
GraphInstants ==
    { 0, HEAD_CHECK_MIN_INTERVAL_MS + 1, HEAD_CHECK_MIN_INTERVAL_MS + 5001,
      HEAD_CHECK_MIN_INTERVAL_MS + RATE_LIMIT_FALLBACK_COOLDOWN_MS + 2 }

\* the remote calls that fail: a quota error without headers or with a
\* reset instant already past, or another error
QuotaFaults ==
    { [at |-> n, kind |-> "quota", retryAfterMs |-> 0, resetAtMs |-> r] :
        n \in 1..(Len(TreePaths) + 1), r \in {0, 1000} }

ErrorFaults ==
    { [at |-> n, kind |-> "error", retryAfterMs |-> 0, resetAtMs |-> 0] :
        n \in 1..(Len(TreePaths) + 1) }

InitGraph ==
    /\ now = 0
    /\ locks = << >>
    /\ inflight = {}
    /\ last = [kind |-> "init"]
    /\ remoteHead = [u |-> "", d |-> "", dx |-> ""]
    /\ headCache = [present |-> FALSE]
    /\ nops = 0
    /\ otherLocks = << >>
    /\ graphKv = EmptyGraphKv
    /\ flights = << >>
    /\ refLog = {}
    /\ sweeps = << >>

GraphTick ==
    /\ \E t \in GraphInstants :
         /\ t > now
         /\ now' = t
    /\ last' = [kind |-> "tick", from |-> now]
    /\ UNCHANGED <<locks, inflight, remoteHead, headCache, nops, moreVars>>

\* somebody pushes to the branch (or forces it to another commit)
GraphCommit ==
    /\ \E c \in Commits :
         /\ c # remoteHead
         /\ remoteHead' = c
    /\ last' = [kind |-> "commit"]
    /\ UNCHANGED <<now, locks, inflight, headCache, nops, moreVars>>

\* what a get() that came to r leaves behind (a fault is one that struck);
\* quietFrom is the instant from which the clock moved just before, if it did
GraphGetDone(force, fault, r) ==
       /\ fault.at <= Len(r.calls)
       /\ graphKv' = r.kv
       /\ headCache' = r.cache
       /\ last' = [ kind |-> "graph_get", force |-> force, fault |-> fault,
                    at |-> now, calls |-> r.calls, built |-> r.built,
                    outcome |-> r.outcome,
                    limitedUntil |-> graphKv.rateLimitedUntil,
                    hadGraph |-> graphKv.graph # << >>,
                    hadContents |-> DOMAIN graphKv.fileContents,
                    hadShas |-> graphKv.fileShas,
                    was |-> graphKv.graph,
                    checkedAt |-> graphKv.headCheckedAt,
                    quietFrom |-> IF "from" \in DOMAIN last THEN last.from
                                  ELSE now ]
       /\ UNCHANGED <<refLog, sweeps, now, locks, inflight, remoteHead, nops, otherLocks, flights>>

\* GET /api/graph: get(regenerate), one request at a time, where the remote
\* call named by the fault (if any) fails
GraphGetWith(faults) ==
    \E force \in BOOLEAN, fault \in faults :
       GraphGetDone(force, fault,
           Get(graphKv, headCache, locks, remoteHead, now, force, fault))

\* get(regenerate) with a remote where one call may fail with a quota error
GraphGet == GraphGetWith({NoFault} \cup QuotaFaults)

\* the commits of the quota scenarios: an empty branch, a first push and a
\* change to it
QuotaCommits ==
    { [u |-> "",      d |-> "",      dx |-> ""],
      [u |-> "sha-a", d |-> "sha-b", dx |-> ""],
      [u |-> "sha-a", d |-> "sha-c", dx |-> ""] }

QuotaCommit ==
    /\ \E c \in QuotaCommits :
         /\ c # remoteHead
         /\ remoteHead' = c
    /\ last' = [kind |-> "commit"]
    /\ UNCHANGED <<now, locks, inflight, headCache, nops, moreVars>>

\* get(regenerate) with a remote where one call may fail with an error that
\* is not a quota error
FaultyGet == GraphGetWith({NoFault} \cup ErrorFaults)

\* the instants of the build scenarios: a first request, and one at which a
\* HEAD cached then is too old
BuildInstants == {0, HEAD_CHECK_MIN_INTERVAL_MS + 1}

BuildTick ==
    /\ \E t \in BuildInstants :
         /\ t > now
         /\ now' = t
    /\ last' = [kind |-> "tick", from |-> now]
    /\ UNCHANGED <<locks, inflight, remoteHead, headCache, nops, moreVars>>

\* get(regenerate) with a remote that answers every call
BuildGet == GraphGetWith({NoFault})

----------------------------------------------------------------------------
(* lib/github: the raw value of the HEAD cache key *)

\* A JSON value as typeof sees it
Str(v) == [t |-> "string", v |-> v]
Num(n) == [t |-> "number", v |-> n]
Undefined == [t |-> "undefined"]

\* What kv.get may return for the key: null, an object with its sha and
\* fetched_at members, or a string that holds JSON text of such a value
\* (text |-> << >> is a string that is no JSON)
RawNull == [form |-> "null"]
RawObject(sha, fetched_at) ==
    [form |-> "object", sha |-> sha, fetched_at |-> fetched_at]
RawString(text) == [form |-> "string", text |-> text]

\* parseRepoHeadCacheValue: the entry, or present |-> FALSE for null
RECURSIVE ParseRepoHeadCacheValue(_)
ParseRepoHeadCacheValue(input) ==
    IF input.form = "string"
    THEN IF input.text = << >> THEN [present |-> FALSE]
         ELSE ParseRepoHeadCacheValue(input.text[1])
    ELSE IF input.form # "object" THEN [present |-> FALSE]
    ELSE IF input.sha.t # "string" \/ input.fetched_at.t # "number"
    THEN [present |-> FALSE]
    ELSE [present |-> TRUE, sha |-> input.sha.v,
          fetched_at |-> input.fetched_at.v]

\* JSON.stringify(payload) as the key holds it
StringifyPayload(sha, fetched_at) ==
    RawString(<< RawObject(Str(sha), Num(fetched_at)) >>)

\* getRepoHeadCached over the raw key: the HEAD returned, the value the key
\* holds afterwards and whether the remote was asked
GetRepoHeadCachedRaw(raw, remote, t, maxAgeMs, r) ==
    [ head      |-> r.head[1],
      raw       |-> IF r.calls = << >> THEN raw
                    ELSE StringifyPayload(r.cache.sha, r.cache.fetched_at),
      contacted |-> r.calls # << >> ]

\* the values of maxAgeMs: none allowed, the least, and the default
MaxAges == { -1, 0, 1, DEFAULT_REPO_HEAD_CACHE_MS }

\* instants that put an entry within, at and beyond each maxAgeMs
HeadInstants == { 0, 1, 2, DEFAULT_REPO_HEAD_CACHE_MS + 1 }

\* values of the key that are no entry: text that is no JSON, JSON null, a
\* JSON number, an object without fetched_at, one whose fetched_at is a
\* string, one whose sha is a number
Malformed ==
    { RawString(<< >>),
      RawString(<< RawNull >>),
      [form |-> "number"],
      RawObject(Str("h1"), Undefined),
      RawString(<< RawObject(Str("h1"), Str("0")) >>),
      RawObject(Num(1), Num(0)) }

InitHead ==
    /\ now = 0
    /\ locks = << >>
    /\ inflight = {}
    /\ last = [kind |-> "init"]
    /\ remoteHead = "h1"
    /\ headCache = RawNull
    /\ nops = 0
    /\ otherLocks = << >>
    /\ graphKv = << >>
    /\ flights = << >>
    /\ refLog = { <<"h1", 0>> }
    /\ sweeps = << >>

HeadTick ==
    /\ \E t \in HeadInstants :
         /\ t > now
         /\ now' = t
         /\ refLog' = refLog \cup { <<remoteHead, t>> }
    /\ last' = [kind |-> "tick"]
    /\ UNCHANGED <<locks, inflight, remoteHead, headCache, nops, otherLocks,
                   graphKv, flights, sweeps>>

\* somebody pushes to the branch
HeadPush ==
    /\ \E h \in Heads :
         /\ h # remoteHead
         /\ remoteHead' = h
         /\ refLog' = refLog \cup { <<h, now>> }
    /\ last' = [kind |-> "push"]
    /\ UNCHANGED <<now, locks, inflight, headCache, nops, otherLocks,
                   graphKv, flights, sweeps>>

\* the key is lost or comes to hold something that is no entry
HeadCorrupt ==
    /\ \E raw \in Malformed \cup {RawNull} :
         /\ raw # headCache
         /\ headCache' = raw
    /\ last' = [kind |-> "corrupt"]
    /\ UNCHANGED <<now, locks, inflight, remoteHead, nops, moreVars>>

HeadGetDone(maxAgeMs, r) ==
    /\ headCache' = r.raw
    /\ last' = [ kind |-> "head_get", maxAgeMs |-> maxAgeMs, at |-> now,
                 head |-> r.head, contacted |-> r.contacted,
                 before |-> headCache, remote |-> remoteHead ]
    /\ UNCHANGED <<now, locks, inflight, remoteHead, nops, moreVars>>

\* getRepoHeadCached(owner, repo, branch, maxAgeMs) with a remote that answers
HeadGet ==
    \E maxAgeMs \in MaxAges :
        HeadGetDone(maxAgeMs,
            GetRepoHeadCachedRaw(headCache, remoteHead, now, maxAgeMs,
                GetRepoHeadCachedMaxAge(ParseRepoHeadCacheValue(headCache),
                    remoteHead, now, maxAgeMs, << >>, NoFault)))

\* acquireLocks beside the graph route: the call and the store's run of its
\* script in one step
OverlayAcquire ==
    /\ nops < MaxAcquires
    /\ \E r \in LockRequests :
         LET req == [op |-> "acquire", via |-> "acquireLocks", timestamp |-> now] @@ r
             out == AcquireScript(locks, req)
         IN  /\ locks' = out.hash
             /\ last' = [ kind |-> "acquire", req |-> req, result |-> out.result ]
    /\ nops' = nops + 1
    /\ UNCHANGED <<now, inflight, remoteHead, headCache, moreVars>>

\* releaseLocks beside the graph route
OverlayRelease ==
    /\ \E u \in Users, fs \in FileSeqs :
         /\ locks' = ReleaseScript(locks, fs, u, 1)
         /\ locks' # locks
         /\ last' = [ kind |-> "release", userId |-> u, filePaths |-> fs ]
    /\ UNCHANGED <<now, inflight, remoteHead, headCache, nops, moreVars>>

\* the instants of the overlay scenarios: a lock taken at 0 is live before
\* LOCK_TTL_MS and expired from then on
OverlayInstants == {0, LOCK_TTL_MS}

OverlayTick ==
    /\ \E t \in OverlayInstants :
         /\ t > now
         /\ now' = t
    /\ last' = [kind |-> "tick"]
    /\ UNCHANGED <<locks, inflight, remoteHead, headCache, nops, moreVars>>

----------------------------------------------------------------------------
(* post_status OPEN beside the graph service *)

\* orphaned_dependencies that also lists the files being released
RECURSIVE OrphanedDependenciesAnySource(_, _, _, _)
OrphanedDependenciesAnySource(edges, i, releasedPaths, found) ==
    IF i > Len(edges) THEN found
    ELSE OrphanedDependenciesAnySource(edges, i + 1, releasedPaths,
             IF /\ edges[i].target \in releasedPaths
                /\ edges[i].source \notin Range(found)
             THEN Append(found, edges[i].source)
             ELSE found)

\* the loop over cachedGraph.edges from the i-th on: the sources of the edges
\* into a released path that are not themselves released, each added to the
\* Set once, in the order Array.from lists them
RECURSIVE OrphanedDependencies(_, _, _, _)
OrphanedDependencies(edges, i, releasedPaths, found) ==
    IF i > Len(edges) THEN found
    ELSE OrphanedDependencies(edges, i + 1, releasedPaths,
             IF /\ edges[i].target \in releasedPaths
                /\ edges[i].source \notin releasedPaths
                /\ edges[i].source \notin Range(found)
             THEN Append(found, edges[i].source)
             ELSE found)

\* what the handler answers after a release, with the files it found
\* depending on the released ones
ReleasedResponseWith(orphanedDependencies) ==
    [ http |-> 200, success |-> TRUE, action |-> "PROCEED", command |-> "",
      reason |-> <<"Locks released successfully">>,
      orphaned_dependencies |-> orphanedDependencies ]

\* the commits of these scenarios: no source file; u.ts and d.ts importing
\* each other; d.tsx importing both d.ts and u.ts
OrphanCommits ==
    { [u |-> "",      d |-> "",      dx |-> ""],
      [u |-> "sha-a", d |-> "sha-c", dx |-> ""],
      [u |-> "sha-b", d |-> "sha-b", dx |-> "sha-e"] }

OrphanFileSeqs == { <<PathD>>, <<PathU, PathD>>, <<PathDx, PathD>> }

\* bodies of post_status OPEN on files of the graph, after and without a push
OpenBodies ==
    { [ file_paths |-> fs, status |-> "OPEN", message |-> "done",
        agent_head |-> "h1", new_repo_head |-> nh ] :
        fs \in OrphanFileSeqs, nh \in {"h1", "h2"} }

OrphanCommit ==
    /\ \E c \in OrphanCommits :
         /\ c # remoteHead
         /\ remoteHead' = c
    /\ last' = [kind |-> "commit"]
    /\ UNCHANGED <<now, locks, inflight, headCache, nops, moreVars>>

\* acquireLocks on files of the graph: the call and the store's run of its
\* script in one step
OrphanAcquire ==
    /\ nops < MaxAcquires
    /\ \E u \in Users, fs \in OrphanFileSeqs,
          p \in { q \in Payloads : q.status = "WRITING" } :
         LET req == [ op |-> "acquire", via |-> "acquireLocks",
                      timestamp |-> now, userId |-> u, filePaths |-> fs ] @@ p
             out == AcquireScript(locks, req)
         IN  /\ locks' = out.hash
             /\ last' = [ kind |-> "acquire", req |-> req, result |-> out.result ]
    /\ nops' = nops + 1
    /\ UNCHANGED <<now, inflight, remoteHead, headCache, moreVars>>

\* post_status with status OPEN: validation, HEAD resolution, the PUSH
\* refusal, the release, and orphaned_dependencies from getCached(), which
\* may throw (readFails)
PostStatusOpenGraph ==
    \E headers \in HeaderSets, body \in OpenBodies, readFails \in BOOLEAN :
       /\ PassesValidation(body)
       /\ headCache' = GetRepoHeadCachedMaxAge(headCache, remoteHead, now,
                           DEFAULT_REPO_HEAD_CACHE_MS, << >>, NoFault).cache
       /\ IF ClaimsDoneUnpushed(body)
          THEN /\ locks' = locks
               /\ last' = [ kind |-> "post_status_open", headers |-> headers,
                            body |-> body, response |-> PushResponse,
                            released |-> FALSE, readFails |-> readFails,
                            before |-> locks, graphBefore |-> graphKv ]
          ELSE /\ locks' = ReleaseScript(locks, body.file_paths,
                                         UserIdOf(headers), 1)
               /\ last' = [ kind |-> "post_status_open", headers |-> headers,
                            body |-> body,
                            response |-> ReleasedResponseWith(
                                IF readFails \/ GetCached(graphKv, locks', now) = << >>
                                THEN << >>
                                ELSE OrphanedDependencies(
                                         GetCached(graphKv, locks', now)[1].edges,
                                         1, Range(body.file_paths), << >>)),
                            released |-> TRUE, readFails |-> readFails,
                            before |-> locks, graphBefore |-> graphKv ]
       /\ UNCHANGED <<now, inflight, remoteHead, nops, moreVars>>

----------------------------------------------------------------------------
(* lib/locks over a hash that may hold values that are no lock entry *)

\* stored values that parseLockEntry rejects: text that is no JSON, and the
\* JSON of an entry that has lost its status member
NotJson == [text |-> "garbage"]

WithoutStatus(user, expiry) ==
    [ file_path |-> "x", user_id |-> user, user_name |-> "Dev One",
      agent_head |-> "h1", message |-> "edit", timestamp |-> 0,
      expiry |-> expiry ]

CorruptValues ==
    { NotJson } \cup { WithoutStatus(u, LOCK_TTL_MS) : u \in Users }

\* cjson.decode(existing) returns a table, and lock.expiry > timestamp
\* compares two numbers
Decodes(value) == "expiry" \in DOMAIN value

\* the check phase on raw values, from the i-th file on: the index of the
\* first blocking entry, 0 when the loop runs to its end, -1 when the script
\* raises an error on an entry
RECURSIVE CheckPhaseRaw(_, _, _)
CheckPhaseRaw(h, req, i) ==
    IF i > Len(req.filePaths) THEN 0
    ELSE LET f == req.filePaths[i] IN
         IF f \notin DOMAIN h THEN CheckPhaseRaw(h, req, i + 1)
         ELSE IF ~Decodes(h[f]) THEN -1
         ELSE IF BlocksAcquire(h[f], req) THEN i
         ELSE CheckPhaseRaw(h, req, i + 1)

\* acquireLocks on raw values: the script, and the catch that turns its
\* error into INTERNAL_ERROR
AcquireLocksRaw(h, req) ==
    IF CheckPhaseRaw(h, req, 1) = -1
    THEN [ hash |-> h,
           result |-> [success |-> FALSE, reason |-> "INTERNAL_ERROR"] ]
    ELSE AcquireScript(h, req)

\* getLocks on raw values: the entries that parse and have not expired
GetLocksRawAt(h, t) ==
    [ f \in { g \in DOMAIN h : ParseLockEntry(h[g]) /\ h[g].expiry > t }
        |-> h[f] ]

\* checkLocks on raw values
CheckLocksRawAt(h, t, filePaths) ==
    [ f \in Range(filePaths) \cap DOMAIN GetLocksRawAt(h, t)
        |-> GetLocksRawAt(h, t)[f] ]

\* a value of the hash is spoilt, or something that is no entry is written
CorruptEntry ==
    /\ \E f \in Files, v \in CorruptValues :
         /\ IF f \in DOMAIN locks THEN locks[f] # v ELSE TRUE
         /\ locks' = [ g \in DOMAIN locks \cup {f} |->
                         IF g = f THEN v ELSE locks[g] ]
         /\ last' = [kind |-> "corrupt", file |-> f]
    /\ UNCHANGED <<now, inflight, remoteHead, headCache, nops, moreVars>>

\* acquireLocks: the call and the store's run of its script in one step
AcquireRaw ==
    /\ nops < MaxAcquires
    /\ \E r \in LockRequests :
         LET req == [op |-> "acquire", via |-> "acquireLocks", timestamp |-> now] @@ r
             out == AcquireLocksRaw(locks, req)
         IN  /\ locks' = out.hash
             /\ last' = [ kind |-> "acquire_raw", req |-> req,
                          result |-> out.result, before |-> locks ]
    /\ nops' = nops + 1
    /\ UNCHANGED <<now, inflight, remoteHead, headCache, moreVars>>

GetLocksRaw ==
    /\ last' = [ kind |-> "getLocks_raw", at |-> now,
                 result |-> GetLocksRawAt(locks, now) ]
    /\ UNCHANGED <<now, locks, inflight, remoteHead, headCache, nops, moreVars>>

CheckLocksRaw ==
    /\ \E fs \in FileSeqs :
         last' = [ kind |-> "checkLocks_raw", at |-> now, filePaths |-> fs,
                   result |-> CheckLocksRawAt(locks, now, fs) ]
    /\ UNCHANGED <<now, locks, inflight, remoteHead, headCache, nops, moreVars>>

----------------------------------------------------------------------------
(* post_status when the store fails *)

\* what becomes of the kv.eval call: it resolves, it rejects before the
\* script has run, it rejects after (the reply is lost), or it resolves to
\* something normalizeJsonValue cannot read
KvOutcomes == {"resolves", "rejects", "reply_lost", "unreadable"}

InternalError == [success |-> FALSE, reason |-> "INTERNAL_ERROR"]

InvalidLockResponse == [success |-> FALSE, reason |-> "INVALID_LOCK_RESPONSE"]

\* acquireLocks from the call of kv.eval to its return
AcquireLocksKv(h, req, kvOutcome) ==
    IF kvOutcome = "rejects" THEN [hash |-> h, result |-> InternalError]
    ELSE IF kvOutcome = "reply_lost"
    THEN [hash |-> AcquireLocksRaw(h, req).hash, result |-> InternalError]
    ELSE IF kvOutcome = "unreadable"
    THEN [hash |-> AcquireLocksRaw(h, req).hash, result |-> InvalidLockResponse]
    ELSE AcquireLocksRaw(h, req)

\* the fields of the request post_status hands to acquireLocks
PostLockRequest(headers, body, repoHead, t) ==
    [ op |-> "acquire", via |-> "post_status", timestamp |-> t,
      userId |-> UserIdOf(headers), userName |-> UserNameOf(headers),
      filePaths |-> body.file_paths, status |-> body.status,
      message |-> body.message,
      agentHead |-> IF IsNonEmptyString(body.agent_head)
                    THEN body.agent_head ELSE repoHead ]

\* post_status WRITING / READING as one step, the store's part included
PostStatusLockKv ==
    \E headers \in HeaderSets, body \in PostBodies, kvOutcome \in KvOutcomes :
       /\ PassesValidation(body)
       /\ body.status \in {"WRITING", "READING"}
       /\ headCache' = GetRepoHeadCached(headCache, remoteHead, now).cache
       /\ IF StalenessGate(body, GetRepoHeadCached(headCache, remoteHead, now).head)
               = "acquire"
          THEN /\ nops < MaxAcquires
               /\ nops' = nops + 1
               /\ LET req == PostLockRequest(headers, body,
                                 GetRepoHeadCached(headCache, remoteHead, now).head,
                                 now)
                      out == AcquireLocksKv(locks, req, kvOutcome)
                  IN  /\ locks' = out.hash
                      /\ last' = [ kind |-> "post_status_kv", body |-> body,
                                   kvOutcome |-> kvOutcome,
                                   result |-> out.result,
                                   response |-> LockResponse(req, out.result),
                                   before |-> locks ]
          ELSE /\ kvOutcome = "resolves"
               /\ UNCHANGED <<locks, nops>>
               /\ last' = [ kind |-> "post_status", body |-> body,
                            response |->
                              IF StalenessGate(body,
                                     GetRepoHeadCached(headCache, remoteHead, now).head)
                                   = "PULL"
                              THEN PullResponse(
                                     GetRepoHeadCached(headCache, remoteHead, now).head,
                                     body.agent_head)
                              ELSE MissingFields,
                            before |-> locks ]
       /\ UNCHANGED <<now, inflight, remoteHead, moreVars>>

----------------------------------------------------------------------------
(* The validation of the two routes, on bodies as they arrive *)

\* A text is the sequence of its runs: " " for a run of whitespace, a word
\* for a run of other characters. JSON values are tagged as typeof and
\* Array.isArray tell them apart.
Blank == " "

JNull == [t |-> "null"]

Arr(items) == [t |-> "array", v |-> items]

\* String.prototype.trim
RECURSIVE TrimStart(_)
TrimStart(text) ==
    IF text # << >> /\ Head(text) = Blank THEN TrimStart(Tail(text)) ELSE text

RECURSIVE TrimEnd(_)
TrimEnd(text) ==
    IF text # << >> /\ text[Len(text)] = Blank
    THEN TrimEnd(SubSeq(text, 1, Len(text) - 1))
    ELSE text

Trim(text) == TrimEnd(TrimStart(text))

\* isNonEmptyString on a JSON value
IsNonEmptyText(value) ==
    /\ value.t = "string"
    /\ Len(Trim(value.v)) > 0

\* the string a text of one word stands for ("" for the empty text)
WordOf(text) == IF text = << >> THEN "" ELSE text[1]

\* normalizeFilePaths that trims the candidates but skips none of the strings
RECURSIVE NormalizeFilePathsKeepBlank(_, _, _)
NormalizeFilePathsKeepBlank(items, i, normalized) ==
    IF i > Len(items) THEN normalized
    ELSE IF items[i].t # "string"
    THEN NormalizeFilePathsKeepBlank(items, i + 1, normalized)
    ELSE IF WordOf(Trim(items[i].v)) \in Range(normalized)
    THEN NormalizeFilePathsKeepBlank(items, i + 1, normalized)
    ELSE NormalizeFilePathsKeepBlank(items, i + 1,
             Append(normalized, WordOf(Trim(items[i].v))))

\* the loop of normalizeFilePaths from the i-th candidate on: blank and
\* non-string candidates are skipped, the others trimmed and kept once
RECURSIVE NormalizeFilePaths(_, _, _)
NormalizeFilePaths(items, i, normalized) ==
    IF i > Len(items) THEN normalized
    ELSE IF ~IsNonEmptyText(items[i])
    THEN NormalizeFilePaths(items, i + 1, normalized)
    ELSE IF WordOf(Trim(items[i].v)) \in Range(normalized)
    THEN NormalizeFilePaths(items, i + 1, normalized)
    ELSE NormalizeFilePaths(items, i + 1,
             Append(normalized, WordOf(Trim(items[i].v))))

\* normalizeFilePaths(value) followed by the route's test
\* !filePaths || filePaths.length === 0
NoFilePaths(value) ==
    IF value.t # "array" THEN TRUE
    ELSE Len(NormalizeFilePaths(value.v, 1, << >>)) = 0

\* getMissingFields
GetMissingFields(body, fields) ==
    { field \in fields :
        \/ body[field].t \in {"undefined", "null"}
        \/ body[field].t = "string" /\ Len(Trim(body[field].v)) = 0
        \/ body[field].t = "array" /\ Len(body[field].v) = 0 }

\* body.agent_head and body.new_repo_head as the handler goes on to use
\* them: the string, or "" for a value isNonEmptyString refuses
HeadGiven(value) == IF IsNonEmptyText(value) THEN WordOf(value.v) ELSE ""

BodyFields ==
    {"repo_url", "branch", "file_paths", "status", "message", "agent_head",
     "new_repo_head"}

\* values a caller may put in the place of a text
NoTexts == { Undefined, JNull, Str(<< >>), Str(<<Blank>>), Num(1) }

\* values a caller may put in the place of file_paths
FilePathValues ==
    { Arr(<<Str(<<"x">>)>>),
      Arr(<<Str(<<Blank, "x">>), Str(<<"x", Blank>>), Str(<<"y">>)>>),
      Arr(<<Str(<<Blank>>), Num(1), Str(<<"y">>)>>),
      Arr(<< >>),
      Arr(<<Str(<<Blank>>)>>),
      Arr(<<Str(<< >>), Str(<<Blank, Blank>>)>>),
      Arr(<<Num(1)>>),
      Str(<<"x">>), Undefined, JNull }

\* a body that is in order
GoodBody(status, new_repo_head) ==
    [ repo_url |-> Str(<<"repo">>), branch |-> Str(<<"main">>),
      file_paths |-> Arr(<<Str(<<"x">>)>>), status |-> Str(<<status>>),
      message |-> Str(<<"edit">>), agent_head |-> Str(<<"h1">>),
      new_repo_head |-> new_repo_head ]

GoodBodies ==
    { GoodBody("WRITING", Undefined), GoodBody("READING", Undefined),
      GoodBody("OPEN", Undefined), GoodBody("OPEN", Str(<<"h1">>)) }

\* the bodies that arrive: those in order, and those with one member
\* replaced ({} when the payload is no object: toBodyRecord)
RawBodies ==
    GoodBodies
    \cup { [GoodBody("WRITING", Undefined) EXCEPT ![field] = v] :
             field \in {"repo_url", "branch", "status", "message"},
             v \in NoTexts }
    \cup { [b EXCEPT !.agent_head = v] : b \in GoodBodies, v \in NoTexts }
    \cup { [b EXCEPT !.file_paths = v] :
             b \in {GoodBody("WRITING", Undefined), GoodBody("OPEN", Undefined)},
             v \in FilePathValues }
    \cup { GoodBody("DONE", Undefined), [field \in BodyFields |-> Undefined] }

\* post_status: the two validations at the head of the handler
PostStatusRejects(body) ==
    \/ GetMissingFields(body,
           {"repo_url", "branch", "file_paths", "status", "message"}) # {}
    \/ ~IsNonEmptyText(body.repo_url)
    \/ ~IsNonEmptyText(body.branch)
    \/ ~IsNonEmptyText(body.message)
    \/ body.status.t # "string"
    \/ ParseCoordinationStatus(WordOf(body.status.v)) = ""
    \/ NoFilePaths(body.file_paths)

\* check_status: the two validations at the head of the handler
CheckStatusRejects(body) ==
    \/ GetMissingFields(body,
           {"repo_url", "branch", "file_paths", "agent_head"}) # {}
    \/ ~IsNonEmptyText(body.repo_url)
    \/ ~IsNonEmptyText(body.branch)
    \/ ~IsNonEmptyText(body.agent_head)
    \/ NoFilePaths(body.file_paths)

\* the body of a post_status request that has passed the validations, as the
\* rest of the handler reads it
PostBodyOf(body) ==
    [ file_paths    |-> NormalizeFilePaths(body.file_paths.v, 1, << >>),
      status        |-> WordOf(body.status.v),
      message       |-> WordOf(body.message.v),
      agent_head    |-> HeadGiven(body.agent_head),
      new_repo_head |-> HeadGiven(body.new_repo_head) ]

\* the handler past its validations, on the body it has read: the new lock
\* hash and the response
PostStatusAccepted(h, headers, b, repoHead, t) ==
    IF b.status = "OPEN"
    THEN IF ClaimsDoneUnpushed(b)
         THEN [hash |-> h, response |-> PushResponse]
         ELSE [ hash |-> ReleaseScript(h, b.file_paths, UserIdOf(headers), 1),
                response |-> ReleasedResponse ]
    ELSE IF StalenessGate(b, repoHead) = "400"
    THEN [hash |-> h, response |-> MissingFields]
    ELSE IF StalenessGate(b, repoHead) = "PULL"
    THEN [hash |-> h, response |-> PullResponse(repoHead, b.agent_head)]
    ELSE [ hash |-> AcquireScript(h, PostLockRequest(headers, b, repoHead, t)).hash,
           response |->
               LockResponse(PostLockRequest(headers, b, repoHead, t),
                   AcquireScript(h, PostLockRequest(headers, b, repoHead, t)).result) ]

\* post_status from the payload to the response
PostStatusRaw ==
    \E body \in RawBodies :
       /\ IF PostStatusRejects(body)
          THEN /\ UNCHANGED <<locks, headCache>>
               /\ last' = [ kind |-> "post_status_raw", body |-> body,
                            response |-> MissingFields, before |-> locks ]
          ELSE \E headers \in HeaderSets :
               /\ headCache' = GetRepoHeadCached(headCache, remoteHead, now).cache
               /\ locks' = PostStatusAccepted(locks, headers, PostBodyOf(body),
                               GetRepoHeadCached(headCache, remoteHead, now).head,
                               now).hash
               /\ last' = [ kind |-> "post_status_raw", body |-> body,
                            response |->
                                PostStatusAccepted(locks, headers, PostBodyOf(body),
                                    GetRepoHeadCached(headCache, remoteHead, now).head,
                                    now).response,
                            before |-> locks ]
       /\ UNCHANGED <<now, inflight, remoteHead, nops, moreVars>>

\* check_status from the payload to the response
CheckStatusRaw ==
    \E body \in RawBodies :
       /\ last' = [ kind |-> "check_status_raw", body |-> body,
                    response |->
                        IF CheckStatusRejects(body) THEN MissingFields
                        ELSE CheckStatusResponse(
                                 [ file_paths |->
                                       NormalizeFilePaths(body.file_paths.v, 1, << >>),
                                   agent_head |-> WordOf(body.agent_head.v) ],
                                 remoteHead,
                                 CheckLocksAt(locks, now,
                                     NormalizeFilePaths(body.file_paths.v, 1, << >>))),
                    before |-> locks ]
       /\ UNCHANGED <<now, locks, inflight, remoteHead, headCache, nops, moreVars>>

----------------------------------------------------------------------------
(* post_status and the age of the HEAD it compares with *)

\* WRITING / READING bodies of agents at either commit, or that name none
GateBodies ==
    { [ file_paths |-> fs, status |-> st, message |-> "edit",
        agent_head |-> ah, new_repo_head |-> "" ] :
        fs \in ApiFileSeqs, st \in {"WRITING", "READING"},
        ah \in Heads \cup {""} }

\* post_status WRITING / READING as one step: HEAD is resolved through the
\* cache, the gate decides, the store runs the script
PostStatusGate ==
    \E headers \in HeaderSets, body \in GateBodies :
       /\ headCache' = GetRepoHeadCached(headCache, remoteHead, now).cache
       /\ locks' = PostStatusAccepted(locks, headers, body,
                       GetRepoHeadCached(headCache, remoteHead, now).head, now).hash
       /\ last' = [ kind |-> "post_status_gate", headers |-> headers,
                    body |-> body, at |-> now,
                    remoteHead |-> remoteHead, cache |-> headCache,
                    repoHead |-> GetRepoHeadCached(headCache, remoteHead, now).head,
                    response |->
                        PostStatusAccepted(locks, headers, body,
                            GetRepoHeadCached(headCache, remoteHead, now).head,
                            now).response,
                    before |-> locks ]
       /\ UNCHANGED <<now, inflight, remoteHead, nops, moreVars>>

----------------------------------------------------------------------------
(* post_status OPEN when the remote fails *)

\* what the remote does when asked for the branch HEAD
RemoteFaults == {"none", "quota", "transport"}

\* getRepoHeadCached returns without asking the remote
HeadServedFromCache(cache, t) ==
    /\ DEFAULT_REPO_HEAD_CACHE_MS > 0
    /\ cache.present
    /\ t - cache.fetched_at <= DEFAULT_REPO_HEAD_CACHE_MS

\* the catch of the handler
ErrorResponse(remoteFault) ==
    IF remoteFault = "quota"
    THEN [http |-> 429, error |-> "GitHub API rate limit exceeded"]
    ELSE [http |-> 500, error |-> "Internal server error"]

\* post_status OPEN from the resolution of HEAD on: the call throws when the
\* remote has to be asked and fails, and the catch answers; otherwise the
\* request is refused with PUSH or the release script runs
PostStatusOpenRemote ==
    \E headers \in HeaderSets, body \in PostBodies, remoteFault \in RemoteFaults :
       /\ PassesValidation(body)
       /\ body.status = "OPEN"
       /\ HeadServedFromCache(headCache, now) => remoteFault = "none"
       /\ IF remoteFault # "none"
          THEN /\ UNCHANGED <<locks, headCache>>
               /\ last' = [ kind |-> "post_status_open_remote",
                            headers |-> headers, body |-> body,
                            remoteFault |-> remoteFault,
                            response |-> ErrorResponse(remoteFault),
                            before |-> locks ]
          ELSE /\ headCache' = GetRepoHeadCached(headCache, remoteHead, now).cache
               /\ locks' = PostStatusAccepted(locks, headers, body,
                               GetRepoHeadCached(headCache, remoteHead, now).head,
                               now).hash
               /\ last' = [ kind |-> "post_status_open_remote",
                            headers |-> headers, body |-> body,
                            remoteFault |-> remoteFault,
                            response |->
                                PostStatusAccepted(locks, headers, body,
                                    GetRepoHeadCached(headCache, remoteHead, now).head,
                                    now).response,
                            before |-> locks ]
       /\ UNCHANGED <<now, inflight, remoteHead, nops, moreVars>>

----------------------------------------------------------------------------
(* Builds by two processes over one store *)

\* the server processes, each with its own GraphService.inFlight map
Processes == {"p1", "p2"}

\* the commits the branch goes through, oldest first: empty, two files, a
\* third file added
RaceCommits ==
    << [u |-> "",      d |-> "",      dx |-> ""],
       [u |-> "sha-a", d |-> "sha-b", dx |-> ""],
       [u |-> "sha-a", d |-> "sha-b", dx |-> "sha-b"] >>

\* the place of a commit in the history of the branch
CommitIndex(commit) ==
    CHOOSE i \in 1..Len(RaceCommits) : RaceCommits[i] = commit

\* somebody pushes the next commit
RaceAdvance ==
    /\ CommitIndex(remoteHead) < Len(RaceCommits)
    /\ remoteHead' = RaceCommits[CommitIndex(remoteHead) + 1]
    /\ last' = [kind |-> "commit"]
    /\ UNCHANGED <<now, locks, inflight, headCache, nops, moreVars>>

\* the pipeline of a build applied to the store as it is when exec runs:
\* set graph, set meta, hdel of the paths the build found deleted, hset of
\* the shas of the build's tree
PipelineExec(kv, build) ==
    [ kv EXCEPT
        !.graph = build.graph,
        !.meta = build.meta,
        !.fileShas =
            [ p \in (DOMAIN kv.fileShas \ build.deletedFiles)
                    \cup DOMAIN build.newShas |->
                IF p \in DOMAIN build.newShas THEN build.newShas[p]
                ELSE kv.fileShas[p] ] ]

\* get() in a process with nothing in flight, up to the pipeline of its
\* build: HEAD, tree, file_shas, the blob and the contents are read and the
\* graph is computed; what the loop wrote to the contents hash is in the
\* store. A get() that builds nothing has returned.
ProcessGetBegin(p, force, r) ==
    /\ headCache' = r.cache
    /\ IF r.built
       THEN /\ graphKv' = [ graphKv EXCEPT
                              !.fileContents = r.kv.fileContents,
                              !.headCheckedAt = r.kv.headCheckedAt ]
            /\ inflight' = inflight \cup
                 { [ op |-> "build", process |-> p,
                     graph |-> r.kv.graph, meta |-> r.kv.meta,
                     deletedFiles |-> DOMAIN graphKv.fileShas
                                        \ DOMAIN r.kv.fileShas,
                     newShas |-> r.kv.fileShas ] }
       ELSE /\ graphKv' = r.kv
            /\ inflight' = inflight
    /\ last' = [kind |-> "process_get", process |-> p, force |-> force,
                built |-> r.built]
    /\ UNCHANGED <<now, locks, remoteHead, nops, otherLocks, flights, refLog,
                   sweeps>>

ProcessGet ==
    \E p \in Processes, force \in BOOLEAN :
       /\ ~\E b \in inflight : b.process = p
       /\ ProcessGetBegin(p, force,
              Get(graphKv, headCache, locks, remoteHead, now, force, NoFault))

\* pipeline.exec() of a build in flight
ProcessPersist ==
    \E b \in inflight :
       /\ b.op = "build"
       /\ graphKv' = PipelineExec(graphKv, b)
       /\ inflight' = inflight \ {b}
       /\ last' = [ kind |-> "process_persist", process |-> b.process,
                    before |-> graphKv ]
       /\ UNCHANGED <<now, locks, remoteHead, headCache, nops, otherLocks,
                      flights, refLog, sweeps>>

----------------------------------------------------------------------------
(* cleanupExpiredLocks beside other clients *)

\* cleanupExpiredLocks up to the entries of the key: now is taken and
\* hgetall read; the entries are then visited one await at a time
SweepBegin ==
    /\ sweeps = << >>
    /\ locks # << >>
    /\ sweeps' = << [at |-> now, entries |-> locks, todo |-> DOMAIN locks] >>
    /\ last' = [kind |-> "sweep_begin"]
    /\ UNCHANGED <<now, locks, inflight, remoteHead, headCache, nops,
                   otherLocks, graphKv, flights, refLog>>

\* one turn of the loop over the entries read: hdel of the field if the
\* value read does not parse or had expiry < now (the now of the start)
SweepStep ==
    /\ sweeps # << >>
    /\ \E f \in sweeps[1].todo :
         LET stale == \/ ~ParseLockEntry(sweeps[1].entries[f])
                      \/ sweeps[1].entries[f].expiry < sweeps[1].at
         IN  /\ locks' = IF stale
                         THEN [ g \in DOMAIN locks \ {f} |-> locks[g] ]
                         ELSE locks
             /\ sweeps' = IF sweeps[1].todo = {f} THEN << >>
                          ELSE << [sweeps[1] EXCEPT !.todo = @ \ {f}] >>
             /\ last' = [ kind |-> "sweep_step", file |-> f, hdel |-> stale,
                          before |-> locks ]
    /\ UNCHANGED <<now, inflight, remoteHead, headCache, nops,
                   otherLocks, graphKv, flights, refLog>>

----------------------------------------------------------------------------
(* Specifications *)

\* the lock engine under concurrent callers
Next ==
    \/ Tick
    \/ AcquireBegin
    \/ AcquireEval
    \/ ReleaseLocks

Spec == Init /\ [][Next]_vars

\* locks taken, left to age, and read
NextRead ==
    \/ Tick
    \/ AcquireBegin
    \/ AcquireEval
    \/ GetLocks
    \/ CheckLocks

SpecRead == Init /\ [][NextRead]_vars

\* the post_status route under concurrent callers and a moving remote HEAD
NextApi ==
    \/ ApiTick
    \/ Push
    \/ PostStatusInvalid
    \/ PostStatusOpen
    \/ PostStatusLock
    \/ PostStatusEval

SpecApi == Init /\ [][NextApi]_vars

\* the check_status route beside callers taking locks and a moving remote HEAD
NextCheck ==
    \/ Tick
    \/ Push
    \/ AcquireBegin
    \/ AcquireEval
    \/ CheckStatusInvalid
    \/ CheckStatus

SpecCheck == Init /\ [][NextCheck]_vars

\* two lock hashes filled by callers, left to age, and swept
NextSweep ==
    \/ Tick
    \/ AcquireBegin
    \/ AcquireEval
    \/ AcquireOther
    \/ CleanupUnauthorized
    \/ CleanupStaleLocks

SpecSweep == Init /\ [][NextSweep]_vars

\* callers of get() in one process, for two (repo, branch) keys
NextFlight ==
    \/ FlightGet
    \/ FlightSettle

SpecFlight == InitFlight /\ [][NextFlight]_vars

\* the graph route over a moving remote whose quota may run out
NextGraph ==
    \/ GraphTick
    \/ QuotaCommit
    \/ GraphGet

SpecGraph == InitGraph /\ [][NextGraph]_vars

\* builds one after another where a remote call may fail
NextFaulty ==
    \/ BuildTick
    \/ GraphCommit
    \/ FaultyGet

SpecFaulty == InitGraph /\ [][NextFaulty]_vars

\* the HEAD cache over a moving remote and a key that may be spoilt
NextHead ==
    \/ HeadTick
    \/ HeadPush
    \/ HeadCorrupt
    \/ HeadGet

SpecHead == InitHead /\ [][NextHead]_vars

\* the graph route beside the lock engine
NextOverlay ==
    \/ OverlayTick
    \/ OverlayAcquire
    \/ OverlayRelease
    \/ QuotaCommit
    \/ BuildGet

SpecOverlay == InitGraph /\ [][NextOverlay]_vars

\* releases through post_status while the graph is built and rebuilt
NextOrphans ==
    \/ OrphanCommit
    \/ BuildGet
    \/ OrphanAcquire
    \/ PostStatusOpenGraph

SpecOrphans == InitGraph /\ [][NextOrphans]_vars

\* the lock engine over a hash whose values may be spoilt
NextCorrupt ==
    \/ Tick
    \/ CorruptEntry
    \/ AcquireRaw
    \/ GetLocksRaw
    \/ CheckLocksRaw

SpecCorrupt == Init /\ [][NextCorrupt]_vars

\* post_status over a store that may fail
NextKv ==
    \/ ApiTick
    \/ Push
    \/ CorruptEntry
    \/ PostStatusLockKv

SpecKv == Init /\ [][NextKv]_vars

\* the two routes fed with payloads of every shape
NextValidate ==
    \/ ApiTick
    \/ Push
    \/ PostStatusRaw
    \/ CheckStatusRaw

SpecValidate == Init /\ [][NextValidate]_vars

\* WRITING / READING requests beside a remote that advances
NextStale ==
    \/ ApiTick
    \/ Push
    \/ PostStatusGate

SpecStale == Init /\ [][NextStale]_vars

\* locks taken and given back while the remote may fail
NextOpen ==
    \/ ApiTick
    \/ PostStatusGate
    \/ PostStatusOpenRemote

SpecOpen == Init /\ [][NextOpen]_vars

\* two processes building while the branch advances
NextProcesses ==
    \/ BuildTick
    \/ RaceAdvance
    \/ ProcessGet
    \/ ProcessPersist

SpecProcesses == InitGraph /\ [][NextProcesses]_vars

\* the sweep beside acquires
NextRace ==
    \/ Tick
    \/ AcquireBegin
    \/ AcquireEval
    \/ SweepBegin
    \/ SweepStep

SpecRace == Init /\ [][NextRace]_vars

\* builds one after another along the commits of the branch
NextBuild ==
    \/ BuildTick
    \/ GraphCommit
    \/ BuildGet

SpecBuild == InitGraph /\ [][NextBuild]_vars

----------------------------------------------------------------------------
(* Properties *)

\* an entry that a reader at time t still sees
Live(h, f, t) == f \in DOMAIN h /\ h[f].expiry > t

\* the positions of the request's files whose entry in h belongs to another
\* user and has not expired at the request's timestamp
BlockedAt(h, req) ==
    { i \in 1..Len(req.filePaths) :
        LET f == req.filePaths[i] IN
        /\ f \in DOMAIN h
        /\ h[f].expiry > req.timestamp
        /\ h[f].user_id # req.userId }

Least(S) == CHOOSE i \in S : \A j \in S : i <= j

\* C1: no file is held by two users at once. An acquire that runs while
\* another user's entry on one of its files has not expired (expiry > now)
\* does not succeed and leaves that entry in place; every key of the hash
\* holds the one entry of its own path.
C1_MutualExclusion ==
    /\ \A f \in DOMAIN locks : locks[f].file_path = f
    /\ last.kind = "acquire" =>
         \A f \in Range(last.req.filePaths) :
            (Live(last.before, f, now) /\ last.before[f].user_id # last.req.userId)
               => /\ ~last.result.success
                  /\ f \in DOMAIN locks
                  /\ locks[f] = last.before[f]

\* C1 witness: an acquire whose script ran after its timestamp was taken has
\* just been refused on a file that another user holds
C1_Witness ==
    /\ last.kind = "acquire"
    /\ ~last.result.success
    /\ Live(last.before, last.result.conflictingFile, now)
    /\ last.before[last.result.conflictingFile].user_id # last.req.userId
    /\ last.req.timestamp < now

\* C2: acquire is all-or-nothing. If some file of the request is blocked the
\* call returns FILE_CONFLICT and the hash is exactly as before; otherwise
\* every file of the request ends with an entry of the caller and the other
\* entries are as before.
C2_AllOrNothing ==
    last.kind = "acquire" =>
       IF BlockedAt(last.before, last.req) # {}
       THEN /\ ~last.result.success
            /\ last.result.reason = "FILE_CONFLICT"
            /\ locks = last.before
       ELSE /\ last.result.success
            /\ \A f \in Range(last.req.filePaths) :
                  f \in DOMAIN locks /\ locks[f].user_id = last.req.userId
            /\ \A f \in DOMAIN last.before \ Range(last.req.filePaths) :
                  f \in DOMAIN locks /\ locks[f] = last.before[f]
            /\ DOMAIN locks = DOMAIN last.before \cup Range(last.req.filePaths)

\* C2 witness: the conflict was met on the second file of the request and the
\* first file, which nobody held, is still not locked
C2_Witness ==
    /\ last.kind = "acquire"
    /\ ~last.result.success
    /\ Len(last.req.filePaths) = 2
    /\ last.result.conflictingFile = last.req.filePaths[2]
    /\ last.req.filePaths[1] \notin DOMAIN locks

\* the hash that one successful acquire by u on fs with timestamp t leaves
\* when it runs on an empty hash
IsSingleInstall(h, u, fs, t) ==
    /\ DOMAIN h = Range(fs)
    /\ \A f \in DOMAIN h : h[f].user_id = u /\ h[f].timestamp = t

\* C3: two acquires by distinct users on overlapping files race on an empty
\* hash. The one whose script runs first succeeds and holds all its files;
\* the other, whose timestamp the winner's entries outlive, returns
\* FILE_CONFLICT naming the winner, and the hash stays the winner's install:
\* the loser holds none of its files.
C3_RaceOneWinner ==
    last.kind = "acquire" =>
       /\ last.before = << >> =>
            /\ last.result.success
            /\ IsSingleInstall(locks, last.req.userId, last.req.filePaths,
                               last.req.timestamp)
       /\ \A u \in Users \ {last.req.userId}, fs \in FileSeqs, t \in Instants :
            ( /\ IsSingleInstall(last.before, u, fs, t)
              /\ Range(fs) \cap Range(last.req.filePaths) # {}
              /\ t + LOCK_TTL_MS > last.req.timestamp )
            => /\ ~last.result.success
               /\ last.result.reason = "FILE_CONFLICT"
               /\ last.result.conflictingUser = u
               /\ locks = last.before
               /\ \A f \in Range(last.req.filePaths) :
                     f \in DOMAIN locks => locks[f].user_id = u

\* C3 witness: the loser took its timestamp before the winner did and its
\* script ran after the winner's (both were in flight together), on the same
\* two files
C3_Witness ==
    /\ last.kind = "acquire"
    /\ ~last.result.success
    /\ Len(last.req.filePaths) = 2
    /\ DOMAIN last.before = Range(last.req.filePaths)
    /\ \E u \in Users \ {last.req.userId}, t \in Instants :
          /\ \A f \in DOMAIN last.before :
                last.before[f].user_id = u /\ last.before[f].timestamp = t
          /\ last.req.timestamp < t

\* C4: release removes exactly the entries of the named files that belong to
\* the caller, leaves every other entry as it was, and reports success.
C4_ReleaseFrame ==
    last.kind = "release" =>
       /\ last.result.success
       /\ DOMAIN locks =
            DOMAIN last.before \
               { f \in Range(last.filePaths) :
                   f \in DOMAIN last.before
                   /\ last.before[f].user_id = last.userId }
       /\ \A f \in DOMAIN locks : locks[f] = last.before[f]

\* C4 witness: a release named one file of the caller, which is gone, and one
\* file of another user, which is still locked
C4_Witness ==
    /\ last.kind = "release"
    /\ \E f \in Range(last.filePaths) :
          f \in DOMAIN last.before /\ f \notin DOMAIN locks
    /\ \E g \in Range(last.filePaths) :
          g \in DOMAIN locks /\ locks[g].user_id # last.userId

\* C5: every lock a read returns has expiry > now at the read and is the
\* stored entry of its path; an entry with expiry <= now is not returned
\* although it is still stored; checkLocks returns only requested paths.
\* (The graph's lock overlay is the result of getLocks.)
C5_ReadsFilterExpired ==
    /\ last.kind \in {"getLocks", "checkLocks"} =>
         /\ last.at = now
         /\ \A f \in DOMAIN last.result :
               /\ f \in DOMAIN locks
               /\ last.result[f] = locks[f]
               /\ last.result[f].expiry > now
    /\ last.kind = "checkLocks" =>
         DOMAIN last.result \subseteq Range(last.filePaths)

\* C5 witness: checkLocks was asked for two stored paths and returned the
\* one that has not expired without the one that has
C5_Witness ==
    /\ last.kind = "checkLocks"
    /\ \E f \in Range(last.filePaths) :
          f \in DOMAIN locks /\ f \notin DOMAIN last.result
    /\ \E g \in Range(last.filePaths) : g \in DOMAIN last.result

\* C6: acquire returns FILE_CONFLICT if and only if some file of the request
\* has a stored entry of another user with expiry > the call's timestamp;
\* conflicting_file is the first such file in the request's order and
\* conflicting_user the user_id stored there.
C6_ConflictIff ==
    last.kind = "acquire" =>
       LET B == BlockedAt(last.before, last.req) IN
       /\ (~last.result.success) <=> (B # {})
       /\ B # {} =>
            /\ last.result.reason = "FILE_CONFLICT"
            /\ last.result.conflictingFile = last.req.filePaths[Least(B)]
            /\ last.result.conflictingUser =
                  last.before[last.req.filePaths[Least(B)]].user_id

\* C6 witness: both files of the request were blocked and the conflict names
\* the first of them
C6_Witness ==
    /\ last.kind = "acquire"
    /\ ~last.result.success
    /\ BlockedAt(last.before, last.req) = {1, 2}
    /\ last.result.conflictingFile = last.req.filePaths[1]

\* C7: an acquire on files that all belong to the caller succeeds and
\* rewrites every entry from the new request: same owner, the new status,
\* message, agentHead and userName, timestamp and expiry of the new call; the
\* other entries stay.
C7_OwnerReacquire ==
    ( /\ last.kind = "acquire"
      /\ \A f \in Range(last.req.filePaths) :
            f \in DOMAIN last.before
            /\ last.before[f].user_id = last.req.userId )
    => /\ last.result.success
       /\ DOMAIN locks = DOMAIN last.before
       /\ \A f \in DOMAIN locks :
             IF f \in Range(last.req.filePaths)
             THEN locks[f] = [ file_path |-> f,
                               user_id |-> last.req.userId,
                               user_name |-> last.req.userName,
                               status |-> last.req.status,
                               agent_head |-> last.req.agentHead,
                               message |-> last.req.message,
                               timestamp |-> last.req.timestamp,
                               expiry |-> last.req.timestamp + LOCK_TTL_MS ]
             ELSE locks[f] = last.before[f]

\* C7 witness: the owner's second acquire came with another status, message,
\* agentHead and userName, at a later time
C7_Witness ==
    /\ last.kind = "acquire"
    /\ last.result.success
    /\ \E f \in Range(last.req.filePaths) :
          /\ f \in DOMAIN last.before
          /\ last.before[f].user_id = last.req.userId
          /\ last.before[f].status # last.req.status
          /\ last.before[f].message # last.req.message
          /\ last.before[f].agent_head # last.req.agentHead
          /\ last.before[f].user_name # last.req.userName
          /\ last.before[f].timestamp < last.req.timestamp

\* C8: every stored entry has expiry = timestamp + LOCK_TTL_MS; getLocks
\* returns an entry taken at t exactly while now < t + LOCK_TTL_MS; an entry
\* whose t + LOCK_TTL_MS is at or before an acquire's timestamp is not the
\* conflict that acquire reports.
C8_TtlBoundary ==
    /\ \A f \in DOMAIN locks :
          locks[f].expiry = locks[f].timestamp + LOCK_TTL_MS
    /\ last.kind = "getLocks" =>
         \A f \in DOMAIN locks :
            (f \in DOMAIN last.result) <=> (now < locks[f].timestamp + LOCK_TTL_MS)
    /\ (last.kind = "acquire" /\ ~last.result.success) =>
         last.before[last.result.conflictingFile].timestamp + LOCK_TTL_MS
            > last.req.timestamp

\* C8 witness: getLocks ran at the very instant an entry expired
C8_Witness ==
    /\ last.kind = "getLocks"
    /\ \E f \in DOMAIN locks : locks[f].timestamp + LOCK_TTL_MS = now

\* C8 witness: an acquire by another user whose timestamp is that very instant
\* has succeeded
C8_WitnessAcquire ==
    /\ last.kind = "acquire"
    /\ last.result.success
    /\ \E f \in Range(last.req.filePaths) :
          /\ f \in DOMAIN last.before
          /\ last.before[f].user_id # last.req.userId
          /\ last.before[f].timestamp + LOCK_TTL_MS = last.req.timestamp

\* the orchestration action of a response ("" for an error body)
ActionOf(response) ==
    IF "action" \in DOMAIN response THEN response.action ELSE ""

Contains(parts, text) == \E i \in 1..Len(parts) : parts[i] = text

\* C9: a post_status request that passes the validation is answered PULL
\* exactly when its status is WRITING and its agent_head is present and
\* differs from the HEAD resolved for it. The PULL answer has success = false,
\* the command git pull --rebase, both heads in metadata, and leaves the hash
\* as it was. A WRITING script is sent only with agent_head equal to the
\* resolved HEAD; a READING request is never answered PULL, and when it has no
\* agent_head its entries carry the resolved HEAD.
C9_PullGate ==
    /\ last.kind = "post_status" =>
         /\ (ActionOf(last.response) = "PULL") <=>
               ( /\ PassesValidation(last.body)
                 /\ last.body.status = "WRITING"
                 /\ last.body.agent_head # ""
                 /\ last.body.agent_head # last.repoHead )
         /\ ActionOf(last.response) = "PULL" =>
               /\ last.response.http = 200
               /\ ~last.response.success
               /\ last.response.command = "git pull --rebase"
               /\ last.response.metadata =
                     [ remote_head |-> last.repoHead,
                       your_head |-> last.body.agent_head ]
               /\ locks = last.before
    /\ last.kind = "post_status_lock" =>
         /\ ActionOf(last.response) # "PULL"
         /\ last.req.status = "WRITING" =>
               last.req.agent_head # "" /\ last.req.agent_head = last.req.repoHead
         /\ (last.req.status = "READING" /\ last.req.agent_head = ""
             /\ last.result.success) =>
               \A f \in Range(last.req.filePaths) :
                  locks[f].agent_head = last.req.repoHead
    /\ \A req \in inflight :
          req.via = "post_status" /\ req.status = "WRITING" =>
             req.agent_head = req.repoHead

\* C9 witness: a WRITING request has been answered PULL after the remote
\* branch moved on
C9_Witness ==
    /\ last.kind = "post_status"
    /\ ActionOf(last.response) = "PULL"
    /\ last.response.metadata.remote_head = "h2"
    /\ last.response.metadata.your_head = "h1"

\* C9 witness: a READING request with the same stale agent_head has gone
\* through to the lock engine and holds its file
C9_WitnessReading ==
    /\ last.kind = "post_status_lock"
    /\ last.req.status = "READING"
    /\ last.req.agent_head = "h1"
    /\ last.req.repoHead = "h2"
    /\ last.result.success

\* C10: when the lock engine returns FILE_CONFLICT to a post_status request,
\* the answer has status 200, success = false and the action SWITCH_TASK, its
\* reason contains the conflicting file and the user id of that file's owner,
\* and the hash is as it was.
C10_ConflictSwitchTask ==
    ( /\ last.kind = "post_status_lock"
      /\ ~last.result.success
      /\ last.result.reason = "FILE_CONFLICT" )
    => /\ last.response.http = 200
       /\ ~last.response.success
       /\ last.response.action = "SWITCH_TASK"
       /\ last.result.conflictingFile \in Range(last.req.filePaths)
       /\ Contains(last.response.reason, last.result.conflictingFile)
       /\ Contains(last.response.reason,
                   last.before[last.result.conflictingFile].user_id)
       /\ locks = last.before

\* C10 witness: a READING request for two files met the conflict on the
\* second one
C10_Witness ==
    /\ last.kind = "post_status_lock"
    /\ ~last.result.success
    /\ last.req.status = "READING"
    /\ last.req.filePaths = <<"y", "x">>
    /\ last.result.conflictingFile = "x"
    /\ last.response.action = "SWITCH_TASK"

\* the positions of the requested paths whose stored entry a reader at time
\* t still sees
LockedAt(h, filePaths, t) ==
    { i \in 1..Len(filePaths) : Live(h, filePaths[i], t) }

\* C11: check_status reports status STALE whenever agent_head differs from
\* the remote HEAD, locked files or not; CONFLICT only when it is not stale
\* and some requested file has an unexpired lock; OK otherwise.
C11_StatusStaleFirst ==
    last.kind = "check_status"
    => LET stale  == last.body.agent_head # last.repoHead
           locked == LockedAt(last.before, last.body.file_paths, last.at) # {}
       IN  last.response.status =
               IF stale THEN "STALE" ELSE IF locked THEN "CONFLICT" ELSE "OK"

\* C12: check_status answers PULL with 'git pull --rebase' exactly when
\* agent_head differs from the remote HEAD; otherwise SWITCH_TASK, naming the
\* first requested file with an unexpired lock, that lock's holder and the
\* kind DIRECT, when there is such a file, whoever holds it; otherwise
\* PROCEED. The lock hash is as it was.
C12_CheckStatusAction ==
    last.kind = "check_status"
    => LET stale  == last.body.agent_head # last.repoHead
           paths  == last.body.file_paths
           locked == LockedAt(last.before, paths, last.at)
           o      == last.response.orchestration
       IN  /\ (o.action = "PULL") <=> stale
           /\ stale => o.command = "git pull --rebase"
           /\ (~stale /\ locked # {}) =>
                 /\ o.action = "SWITCH_TASK"
                 /\ Contains(o.reason, paths[Least(locked)])
                 /\ Contains(o.reason, last.before[paths[Least(locked)]].user_name)
                 /\ Contains(o.reason, " (DIRECT)")
           /\ (~stale /\ locked = {}) => o.action = "PROCEED"
           /\ locks = last.before

\* C12 witness: an up-to-date caller is sent away because of the second of
\* its two files, the first one being free
C12_Witness ==
    /\ last.kind = "check_status"
    /\ last.body.agent_head = last.repoHead
    /\ Len(last.body.file_paths) = 2
    /\ LockedAt(last.before, last.body.file_paths, last.at) = {2}
    /\ last.response.orchestration.action = "SWITCH_TASK"

\* C12 witness of the other two answers: a stale caller asking for a locked
\* file is told to pull
C12_WitnessStaleLocked ==
    /\ last.kind = "check_status"
    /\ last.body.agent_head # last.repoHead
    /\ LockedAt(last.before, last.body.file_paths, last.at) # {}
    /\ last.response.orchestration.action = "PULL"

\* the entries of h that a sweep at time t must remove
Expired(h, t) == { f \in DOMAIN h : h[f].expiry < t }

\* a was left by a sweep at time t of b: exactly the entries with
\* expiry < t are gone and the others are as they were
SweptFrom(a, b, t) ==
    /\ DOMAIN a = DOMAIN b \ Expired(b, t)
    /\ \A f \in DOMAIN a : a[f] = b[f]

\* C20: a sweep with no lock operation beside it removes from every lock
\* hash every entry with expiry < now and none with expiry >= now, reports
\* how many entries it removed, and leaves no entry with expiry < now.
C20_SweepExact ==
    last.kind = "sweep"
    => /\ SweptFrom(locks, last.before, last.at)
       /\ SweptFrom(otherLocks, last.beforeOther, last.at)
       /\ last.cleaned = Cardinality(Expired(last.before, last.at))
                         + Cardinality(Expired(last.beforeOther, last.at))
       /\ last.response.cleaned = last.cleaned
       /\ Expired(locks, now) = {}
       /\ Expired(otherLocks, now) = {}

\* C20 witness: a sweep that removes an entry of each hash while an entry
\* that expires at this very instant stays
C20_Witness ==
    /\ last.kind = "sweep"
    /\ last.cleaned >= 1
    /\ Expired(last.before, last.at) # {}
    /\ \E f \in DOMAIN otherLocks : otherLocks[f].expiry = last.at

RunningFor(key) == { op \in flights.running : op.key = key }

\* C13: in one process at most one get/regeneration operation is in flight
\* per (repo, branch) key. A get() arriving while one is in flight for its
\* key starts no operation and is given that operation's result or failure;
\* a get() for a key with nothing in flight starts its own, whatever runs
\* for other keys.
C13_SingleFlight ==
    /\ \A key \in FlightKeys : Cardinality(RunningFor(key)) <= 1
    /\ \A c \in DOMAIN flights.awaiting :
          \E op \in RunningFor(flights.awaiting[c].key) :
             op.id = flights.awaiting[c].op
    /\ \A c \in DOMAIN flights.received :
          /\ flights.received[c].op \in DOMAIN flights.settled
          /\ flights.received[c].outcome = flights.settled[flights.received[c].op]
    /\ last.kind = "flight_get" =>
          LET busy == { op \in last.before.running : op.key = last.key } IN
          /\ busy # {} =>
                /\ flights.started = last.before.started
                /\ flights.running = last.before.running
                /\ \A op \in busy : flights.awaiting[last.caller].op = op.id
          /\ busy = {} =>
                /\ flights.started = last.before.started + 1
                /\ Cardinality(RunningFor(last.key)) = 1
    /\ last.kind = "flight_settle" =>
          \A c \in DOMAIN last.before.awaiting :
             last.before.awaiting[c].key = last.op.key =>
                /\ c \in DOMAIN flights.received
                /\ flights.received[c].outcome = last.outcome

\* C13 witness: an operation settles with a failure for two callers at once
\* while an operation for the other key is still running
C13_Witness ==
    /\ last.kind = "flight_settle"
    /\ Cardinality(last.waiters) = 2
    /\ ~last.outcome.ok
    /\ flights.running # {}
    /\ \A c \in last.waiters : flights.received[c].outcome = last.outcome

\* the set of the elements of a sequence
Range1(seq) == { seq[i] : i \in 1..Len(seq) }

\* the graph a build from empty state persists at a commit
ColdGraph(commit) ==
    Generate(EmptyGraphKv, [present |-> FALSE], << >>, commit, 0, TRUE, << >>,
             NoFault).kv.graph[1]

\* C14: whatever builds came before, the nodes and the edges persisted for a
\* commit are those a build from empty state produces at that commit
C14_IncrementalEqualsCold ==
    graphKv.graph # << >> =>
        /\ Range1(graphKv.graph[1].nodes)
             = Range1(ColdGraph(graphKv.graph[1].version).nodes)
        /\ Range1(graphKv.graph[1].edges)
             = Range1(ColdGraph(graphKv.graph[1].version).edges)

\* the supported files of the tree of a commit
TreeFiles(commit) ==
    { f.path : f \in Range1(SupportedFiles(TreeItems(commit, 1))) }

NodeIds(graph) == { n.id : n \in Range1(graph.nodes) }

\* C15: after a build that succeeded, both ends of every persisted edge are
\* persisted nodes and keys of file_shas, and a file that was in file_shas
\* and is gone from the tree is no node and no end of an edge
C15_EdgesWithinNodes ==
    (last.kind = "graph_get" /\ last.built) =>
        /\ \A e \in Range1(graphKv.graph[1].edges) :
              /\ e.source \in NodeIds(graphKv.graph[1]) \cap DOMAIN graphKv.fileShas
              /\ e.target \in NodeIds(graphKv.graph[1]) \cap DOMAIN graphKv.fileShas
        /\ \A p \in DOMAIN last.hadShas \ TreeFiles(graphKv.graph[1].version) :
              /\ p \notin NodeIds(graphKv.graph[1])
              /\ \A e \in Range1(graphKv.graph[1].edges) :
                    e.source # p /\ e.target # p

\* an incremental build after a deletion that leaves an edge in the graph
C15_Witness ==
    /\ last.kind = "graph_get"
    /\ last.built
    /\ last.hadGraph
    /\ DOMAIN last.hadShas \ TreeFiles(graphKv.graph[1].version) # {}
    /\ TreeFiles(graphKv.graph[1].version) \subseteq DOMAIN last.hadShas
    /\ Len(graphKv.graph[1].edges) > 0

\* C16: after a build that succeeded against the HEAD it resolved, the
\* version key and the version in the graph blob are that HEAD, and the keys
\* of file_shas, the node ids and the supported files of its tree are one
\* set, file_shas giving each path its blob sha in that tree
C16_VersionAndFiles ==
    (last.kind = "graph_get" /\ last.built) =>
        /\ graphKv.meta = << headCache.sha >>
        /\ graphKv.graph[1].version = headCache.sha
        /\ DOMAIN graphKv.fileShas = TreeFiles(headCache.sha)
        /\ NodeIds(graphKv.graph[1]) = TreeFiles(headCache.sha)
        /\ \A p \in DOMAIN graphKv.fileShas :
              graphKv.fileShas[p] = ShaAt(headCache.sha, p)

\* a build over an older graph at a commit that added, changed or deleted
\* files, after which the remote is still where the build found it
C16_Witness ==
    /\ last.kind = "graph_get"
    /\ last.built
    /\ last.hadGraph
    /\ headCache.sha = remoteHead
    /\ DOMAIN last.hadShas # TreeFiles(remoteHead)
    /\ DOMAIN last.hadShas \cap TreeFiles(remoteHead) # {}
    /\ \E p \in DOMAIN last.hadShas \cap DOMAIN graphKv.fileShas :
          last.hadShas[p] # graphKv.fileShas[p]

\* C17: a build fetches from the remote only content that the contents hash
\* did not hold when the build began, so that content once fetched is not
\* fetched again for a later file of the same blob sha
C17_FetchOncePerSha ==
    last.kind = "graph_get" =>
        \A i \in DOMAIN last.calls :
            last.calls[i].api = "getContent" =>
                last.calls[i].sha \notin last.hadContents

\* a get() that began while the cooldown was running
InCooldown == last.limitedUntil # 0 /\ last.at < last.limitedUntil

\* a quota error starts a cooldown that ends in the future, and a get()
\* that begins before its end makes no remote call: it returns the cached
\* graph if there is one and fails with status 429 if there is none
CooldownHolds ==
    /\ last.fault.kind = "quota" => graphKv.rateLimitedUntil > last.at
    /\ InCooldown =>
          /\ last.calls = << >>
          /\ last.hadGraph =>
                /\ last.outcome.ok
                /\ << last.outcome.graph >> = GetCached(graphKv, locks, now)
          /\ ~last.hadGraph =>
                /\ ~last.outcome.ok
                /\ last.outcome = [ ok |-> FALSE, status |-> 429,
                                    retryAt |-> last.limitedUntil ]

\* C18 as stated: the cooldown holds, and the first get() that begins at or
\* after its end (the clock having passed the end just before) contacts the
\* remote
C18_CooldownThenRemote ==
    last.kind = "graph_get" =>
        /\ CooldownHolds
        /\ ( /\ last.limitedUntil # 0
             /\ last.quietFrom < last.limitedUntil
             /\ last.at >= last.limitedUntil ) =>
              Len(last.calls) > 0

\* C18: the cooldown holds, and a get() that begins at or after its end
\* contacts the remote if it is forced or finds no cached graph
C18_Cooldown ==
    last.kind = "graph_get" =>
        /\ CooldownHolds
        /\ ( /\ last.limitedUntil # 0
             /\ last.at >= last.limitedUntil
             /\ (last.force \/ ~last.hadGraph) ) =>
              Len(last.calls) > 0

\* a forced get() during the cooldown that is answered with the cached graph
C18_Witness ==
    /\ last.kind = "graph_get"
    /\ InCooldown
    /\ last.force
    /\ last.hadGraph
    /\ last.outcome.ok
    /\ remoteHead # graphKv.graph[1].version

\* a get() during the cooldown that finds no graph
C18_WitnessNoGraph ==
    /\ last.kind = "graph_get"
    /\ InCooldown
    /\ ~last.hadGraph
    /\ ~last.outcome.ok

\* a forced get() after the cooldown that builds
C18_WitnessExpired ==
    /\ last.kind = "graph_get"
    /\ last.limitedUntil # 0
    /\ last.at >= last.limitedUntil
    /\ last.built

\* C25: a build in which a remote call failed does not succeed and leaves
\* file_shas as it was
C25_NoPartialGraph ==
    (last.kind = "graph_get" /\ last.fault.kind # "none") =>
        /\ ~last.built
        /\ graphKv.fileShas = last.hadShas

\* the well-formed values of the HEAD cache key: sha a string and fetched_at
\* a number, as an object or as its JSON text
EntryValues(sha, fetched_at) ==
    { RawObject(Str(sha), Num(fetched_at)),
      RawString(<< RawObject(Str(sha), Num(fetched_at)) >>) }

\* the key held a well-formed entry of this sha, young enough for the call
ServedFromCache(sha) ==
    /\ last.maxAgeMs > 0
    /\ \E t \in HeadInstants :
          /\ last.before \in EntryValues(sha, t)
          /\ last.at - t <= last.maxAgeMs

C21_WitnessMalformed ==
    /\ last.kind = "head_get"
    /\ last.maxAgeMs > 0
    /\ last.before \in Malformed
    /\ last.contacted

\* the stored graph holds no lock, and the graph a get() returned carries
\* the live locks of the lock hash at the instant of the call
OverlayFresh ==
    /\ graphKv.graph # << >> => graphKv.graph[1].locks = << >>
    /\ (last.kind = "graph_get" /\ last.outcome.ok) =>
          last.outcome.graph.locks = GetLocksAt(locks, last.at)

\* C22: the stored graph never holds lock entries; every graph returned
\* carries the non-expired locks read from the lock hash during the call,
\* not the locks member of the stored graph; and a step that changes the
\* lock hash changes none of the stored graph, version and file_shas
C22_LocksOverlaid ==
    /\ []OverlayFresh
    /\ [][ locks' # locks =>
             /\ graphKv'.graph = graphKv.graph
             /\ graphKv'.meta = graphKv.meta
             /\ graphKv'.fileShas = graphKv.fileShas ]_vars

\* the cached graph is returned with one live lock while the hash also
\* holds an expired one
C22_Witness ==
    /\ last.kind = "graph_get"
    /\ last.outcome.ok
    /\ ~last.built
    /\ last.hadGraph
    /\ last.outcome.graph.locks # << >>
    /\ DOMAIN last.outcome.graph.locks # DOMAIN locks

\* the requested files on which another user holds an entry of this status
\* that has not expired when the script runs
HeldByOther(h, req, status) ==
    { f \in Range(req.filePaths) :
        /\ Live(h, f, now)
        /\ h[f].user_id # req.userId
        /\ h[f].status = status }

DependentsOf(graph, releasedPaths) ==
    { e.source : e \in { d \in Range1(graph.edges) :
                           /\ d.target \in releasedPaths
                           /\ d.source \notin releasedPaths } }

\* C24: a post_status OPEN that released answers PROCEED with, as
\* orphaned_dependencies, each file once that has an edge of the cached
\* graph into a released path and is not released itself, and the empty list
\* when the cached graph is missing or cannot be read; the graph keys stay
\* as they were and the lock hash changes by the release only
C24_OrphanedDependencies ==
    (last.kind = "post_status_open" /\ last.released) =>
        /\ last.response.http = 200
        /\ last.response.success
        /\ ActionOf(last.response) = "PROCEED"
        /\ IF last.readFails \/ last.graphBefore.graph = << >>
           THEN last.response.orphaned_dependencies = << >>
           ELSE /\ Range1(last.response.orphaned_dependencies)
                     = DependentsOf(last.graphBefore.graph[1],
                                    Range1(last.body.file_paths))
                /\ Cardinality(Range1(last.response.orphaned_dependencies))
                     = Len(last.response.orphaned_dependencies)
        /\ graphKv = last.graphBefore
        /\ locks = [ f \in { g \in DOMAIN last.before :
                               ~( /\ g \in Range1(last.body.file_paths)
                                  /\ last.before[g].user_id
                                       = UserIdOf(last.headers) ) }
                       |-> last.before[f] ]

\* d.tsx imports both released files and is reported once
C24_Witness ==
    /\ last.kind = "post_status_open"
    /\ last.released
    /\ last.response.orphaned_dependencies = << PathDx >>
    /\ last.body.file_paths = << PathU, PathD >>
    /\ Cardinality({ e \in Range1(last.graphBefore.graph[1].edges) :
                       e.source = PathDx }) = 2
    /\ locks # last.before

\* the files of the request whose stored value does not parse
Unparsable(h, req) ==
    { f \in Range(req.filePaths) : f \in DOMAIN h /\ ~ParseLockEntry(h[f]) }

\* C26: getLocks and checkLocks return no value that does not parse, and an
\* acquire on a file whose stored value does not parse (no other file of the
\* request being held by somebody else) succeeds and leaves a well-formed
\* entry of the requester there
C26_CorruptOverwritten ==
    /\ last.kind \in {"getLocks_raw", "checkLocks_raw"} =>
          \A f \in DOMAIN last.result : ParseLockEntry(last.result[f])
    /\ ( /\ last.kind = "acquire_raw"
         /\ Unparsable(last.before, last.req) # {}
         /\ \A f \in Range(last.req.filePaths) \ Unparsable(last.before, last.req) :
               ~(Live(last.before, f, now)
                 /\ last.before[f].user_id # last.req.userId) ) =>
          /\ last.result.success
          /\ \A f \in Unparsable(last.before, last.req) :
                /\ ParseLockEntry(locks[f])
                /\ locks[f].user_id = last.req.userId

\* C30: the sweep deletes no entry that has not expired at the moment of the
\* delete, even when the entry it read as expired has been taken anew since
C30_SweepSparesLive ==
    (last.kind = "sweep_step" /\ last.hdel) =>
        ~Live(last.before, last.file, now)

\* C27: when the acquire of a post_status WRITING / READING request fails in
\* the store (transport, script error, unreadable reply), the caller gets
\* status 500 and no orchestration command such as SWITCH_TASK
C27_StoreFailureIs500 ==
    (/\ last.kind = "post_status_kv"
     /\ ~last.result.success
     /\ last.result.reason \in {"INTERNAL_ERROR", "INVALID_LOCK_RESPONSE"}) =>
        /\ last.response.http = 500
        /\ "action" \notin DOMAIN last.response

\* C28: post_status with a status other than OPEN, WRITING and READING (its
\* other fields being in order) answers success with PROCEED and leaves the
\* lock map as it was
C28_OtherStatusProceeds ==
    (/\ last.kind = "post_status"
     /\ last.body.status \notin {"OPEN", "WRITING", "READING"}
     /\ IsNonEmptyString(last.body.message)
     /\ Len(last.body.file_paths) > 0) =>
        /\ "action" \in DOMAIN last.response
        /\ last.response.action = "PROCEED"
        /\ last.response.success
        /\ locks = last.before

\* a member that is absent, null, or a string of whitespace only
Lacking(value) ==
    \/ value.t \in {"undefined", "null"}
    \/ value.t = "string" /\ \A i \in 1..Len(value.v) : value.v[i] = Blank

\* file_paths is an array with no entry, or with blank strings only
OnlyBlankPaths(value) ==
    /\ value.t = "array"
    /\ \A i \in 1..Len(value.v) : Lacking(value.v[i]) /\ value.v[i].t = "string"

\* the requests C29 speaks of
MustBeRejected(kind, body) ==
    \/ OnlyBlankPaths(body.file_paths)
    \/ /\ kind = "post_status_raw"
       /\ \/ \E f \in {"repo_url", "branch", "file_paths", "status", "message"} :
                Lacking(body[f])
          \/ body.status = Str(<<"WRITING">>) /\ Lacking(body.agent_head)
    \/ /\ kind = "check_status_raw"
       /\ \E f \in {"repo_url", "branch", "file_paths", "agent_head"} :
             Lacking(body[f])

WritingAt(event) ==
    /\ event.kind = "post_status_gate"
    /\ event.body.status = "WRITING"
    /\ IsNonEmptyString(event.body.agent_head)

HeadToCompare(event) ==
    IF /\ event.cache.present
       /\ event.at - event.cache.fetched_at <= DEFAULT_REPO_HEAD_CACHE_MS
    THEN event.cache.sha
    ELSE event.remoteHead

C32_ForcedGetsForcedRun ==
    \A c \in DOMAIN flights.awaiting :
       flights.awaiting[c].force =>
          \A op \in flights.running :
             op.id = flights.awaiting[c].op => op.force

\* C34: an operation that settles, with a graph or with an error, leaves the
\* in-flight map without its key: the map holds running operations only, and
\* a get() for a key with nothing running starts a new operation
C34_SettledKeyRemoved ==
    /\ \A key \in DOMAIN flights.inFlight :
          \E op \in flights.running :
             op.id = flights.inFlight[key] /\ op.key = key
    /\ last.kind = "flight_settle" => last.op.key \notin DOMAIN flights.inFlight
    /\ (last.kind = "flight_get" /\
        ~\E op \in last.before.running : op.key = last.key) =>
          /\ flights.started = last.before.started + 1
          /\ flights.awaiting[last.caller].op = flights.started

\* a get() for a key whose last operation threw starts a new operation
C34_Witness ==
    /\ last.kind = "flight_get"
    /\ \E c \in DOMAIN last.before.received :
          /\ last.before.received[c].key = last.key
          /\ ~last.before.received[c].outcome.ok
    /\ flights.started = last.before.started + 1
    /\ flights.awaiting[last.caller].op = flights.started

\* C35: a successful acquire by the owner of an entry never leaves that entry
\* with an earlier expiry than it had, whatever the order in which the store
\* runs the owner's requests
C35_ExpiryNeverEarlier ==
    (last.kind = "acquire" /\ last.result.success) =>
        \A f \in Range(last.req.filePaths) :
           (f \in DOMAIN last.before /\ last.before[f].user_id = last.req.userId)
              => locks[f].expiry >= last.before[f].expiry

\* the entries of other users that the request's files have
ForeignEntries(event) ==
    { f \in Range(event.req.filePaths) :
        f \in DOMAIN event.before /\ event.before[f].user_id # event.req.userId }

\* C37: an acquire that reads the clock at or after the expiry of every entry
\* other users have on its files succeeds and replaces those entries, though
\* nobody released or swept them: an entry blocks other users for at most
\* LOCK_TTL_MS from the timestamp of its acquire
C37_ExpiredEntryReplaced ==
    /\ (/\ last.kind = "acquire"
        /\ \A f \in ForeignEntries(last) :
              last.req.timestamp >= last.before[f].expiry) =>
          /\ last.result.success
          /\ \A f \in Range(last.req.filePaths) :
                /\ locks[f].user_id = last.req.userId
                /\ locks[f].expiry = last.req.timestamp + LOCK_TTL_MS
    /\ (last.kind = "acquire" /\ ~last.result.success) =>
          last.req.timestamp <
             last.before[last.result.conflictingFile].timestamp + LOCK_TTL_MS

\* another user's entry, expired and still stored, is replaced by an acquire
C37_Witness ==
    /\ last.kind = "acquire"
    /\ ForeignEntries(last) # {}
    /\ \A f \in ForeignEntries(last) : last.before[f].expiry < last.req.timestamp
    /\ last.result.success
    /\ \A f \in ForeignEntries(last) : locks[f].user_id = last.req.userId

\* C36: post_status(OPEN) by the owner removes the owner's entries on the
\* files it names even when the remote fails to give the branch HEAD
C36_OpenReleasesDespiteRemote ==
    (/\ last.kind = "post_status_open_remote"
     /\ last.remoteFault # "none"
     /\ ~ClaimsDoneUnpushed(last.body)) =>
        \A f \in Range(last.body.file_paths) :
           (f \in DOMAIN last.before /\
            last.before[f].user_id = UserIdOf(last.headers))
              => f \notin DOMAIN locks

\* the sequence in the opposite order
Reversed(seq) == [ i \in 1..Len(seq) |-> seq[Len(seq) + 1 - i] ]

\* the graph a build from empty state persists at a commit when the tree
\* lists its files in the given order
ColdGraphOver(commit, files) ==
    BuildFromFiles(EmptyGraphKv, [present |-> FALSE], << >>, commit, 0, << >>,
                   NoFault, files).kv.graph[1]

\* C40: the persisted nodes are in strictly increasing order of id and the
\* persisted edges in strictly increasing order of (source, target), and a
\* build from empty state persists the same two arrays whatever the order
\* in which the tree lists the files
C40_SortedAndUnique ==
    graphKv.graph # << >> =>
        /\ \A i \in 1..(Len(graphKv.graph[1].nodes) - 1) :
              PathBefore(graphKv.graph[1].nodes[i].id,
                         graphKv.graph[1].nodes[i + 1].id)
        /\ \A i \in 1..(Len(graphKv.graph[1].edges) - 1) :
              \/ PathBefore(graphKv.graph[1].edges[i].source,
                            graphKv.graph[1].edges[i + 1].source)
              \/ /\ graphKv.graph[1].edges[i].source
                      = graphKv.graph[1].edges[i + 1].source
                 /\ PathBefore(graphKv.graph[1].edges[i].target,
                               graphKv.graph[1].edges[i + 1].target)
        /\ ColdGraphOver(graphKv.graph[1].version,
               Reversed(SupportedFiles(TreeItems(graphKv.graph[1].version, 1)))).nodes
             = ColdGraph(graphKv.graph[1].version).nodes
        /\ ColdGraphOver(graphKv.graph[1].version,
               Reversed(SupportedFiles(TreeItems(graphKv.graph[1].version, 1)))).edges
             = ColdGraph(graphKv.graph[1].version).edges

\* a build has persisted a graph of several nodes and several edges
C40_Witness ==
    /\ last.kind = "graph_get"
    /\ last.built
    /\ Len(graphKv.graph[1].nodes) >= 2
    /\ Len(graphKv.graph[1].edges) >= 2

\* the files of the build's tree whose stored sha differs from the tree's
ChangedFiles(event) ==
    { p \in TreeFiles(graphKv.graph[1].version) \cap DOMAIN event.hadShas :
        event.hadShas[p] # ShaAt(graphKv.graph[1].version, p) }

\* the edges that parsing the file at a commit and resolving its imports
\* against the tree of the commit gives
ParsedEdges(commit, path) ==
    Range1(AddEdges(<< >>, path, ParseImports(ContentOf(ShaAt(commit, path)), 1),
                    1, TreeFiles(commit)))

\* a build over a stored graph at a tree that has no new file
IncrementalBuild(event) ==
    /\ event.kind = "graph_get"
    /\ event.built
    /\ event.was # << >>
    /\ TreeFiles(graphKv.graph[1].version) \subseteq DOMAIN event.hadShas

TreeCalls(event) ==
    { i \in DOMAIN event.calls : event.calls[i].api = "getTree" }

\* a get() without regenerate that found a cached graph
PlainGetOverGraph(event) ==
    /\ event.kind = "graph_get"
    /\ ~event.force
    /\ event.was # << >>

\* C39: a get() without regenerate that finds a cached graph makes no remote
\* call when the last HEAD check was less than HEAD_CHECK_MIN_INTERVAL_MS
\* ago; when the HEAD it resolves is the stored version it returns the cached
\* graph and asks for no tree; and a tree is asked for only by a forced get,
\* by one that found no cached graph, or for a HEAD other than the stored
\* version
C39_HeadCheckGuard ==
    /\ (/\ PlainGetOverGraph(last)
        /\ last.checkedAt # 0
        /\ last.at - last.checkedAt < HEAD_CHECK_MIN_INTERVAL_MS) =>
          /\ last.calls = << >>
          /\ last.outcome.ok
          /\ last.outcome.graph.version = last.was[1].version
          /\ graphKv.graph = last.was
    /\ (/\ PlainGetOverGraph(last)
        /\ headCache.present
        /\ headCache.sha = last.was[1].version) =>
          /\ TreeCalls(last) = {}
          /\ last.outcome.ok
          /\ last.outcome.graph.version = last.was[1].version
          /\ graphKv.graph = last.was
    /\ last.kind = "graph_get" =>
          \A i \in TreeCalls(last) :
             \/ last.force
             \/ last.was = << >>
             \/ last.calls[i].sha # last.was[1].version

\* the HEAD check is skipped although the cached HEAD is too old to serve
C39_Witness ==
    /\ PlainGetOverGraph(last)
    /\ last.checkedAt # 0
    /\ last.at - last.checkedAt < HEAD_CHECK_MIN_INTERVAL_MS
    /\ last.limitedUntil <= last.at
    /\ headCache.present => last.at - headCache.fetched_at > DEFAULT_REPO_HEAD_CACHE_MS
    /\ last.calls = << >>
    /\ last.outcome.ok

\* the HEAD is asked of the remote, found to be the stored version, and the
\* cached graph returned
C39_WitnessHeadOnly ==
    /\ PlainGetOverGraph(last)
    /\ Len(last.calls) = 1
    /\ last.calls[1].api = "getRef"
    /\ last.fault.kind = "none"
    /\ TreeCalls(last) = {}
    /\ last.outcome.ok

\* C33: with two processes building while the branch advances, the persisted
\* blob, version and file_shas describe one commit: the keys of file_shas
\* are the persisted nodes, both ends of every persisted edge are persisted
\* nodes, the version key is the blob's version, and no pipeline puts an
\* older commit in the place of a newer one
C33_OneCommitPersisted ==
    graphKv.graph # << >> =>
        /\ DOMAIN graphKv.fileShas = NodeIds(graphKv.graph[1])
        /\ \A e \in Range1(graphKv.graph[1].edges) :
              /\ e.source \in NodeIds(graphKv.graph[1])
              /\ e.target \in NodeIds(graphKv.graph[1])
        /\ graphKv.meta = << graphKv.graph[1].version >>
        /\ (last.kind = "process_persist" /\ last.before.graph # << >>) =>
              CommitIndex(graphKv.graph[1].version)
                 >= CommitIndex(last.before.graph[1].version)

====
